---------------------------- MODULE Spec2Model ----------------------------
(***************************************************************************)
(* Model of the analytics and classification core of the inverse-ETF       *)
(* options dashboard: calculations/technicals.py, calculations/            *)
(* options_analytics.py and calculations/traffic_lights.py.                *)
(*                                                                         *)
(* Number representation.  pandas/Python floats are modelled as exact      *)
(* integers or exact fractions:                                            *)
(*   - prices, SMAs, RSI and annualized returns that the code rounds to    *)
(*     two decimals are integers in hundredths (26071 is 260.71);          *)
(*   - an unrounded value is a record [nan, num, den] standing for the     *)
(*     fraction num/den, or for NaN when nan is TRUE;                      *)
(*   - option deltas are integers in hundredths (25 is 0.25).              *)
(* A Python dict is a function whose DOMAIN is the set of keys present;    *)
(* d.get(k, default) is Get(d, k, default).                                *)
(***************************************************************************)
EXTENDS Integers, Sequences, FiniteSets, TLC

VARIABLES
    pc,             \* position in the pipeline of the specification at hand
    config,         \* the loaded config.yaml (fetch.get_config)
    vix_level,      \* quotes[vix_symbol]["last"]
    vix_tl,         \* result of vix_traffic_light
    chain_row,      \* one provider row of an option chain
    underlying_price, \* quotes[etf]["last"], in cents
    row,            \* the row after enrich_chain
    vix_color,      \* colour handed to option_traffic_light
    index_color,    \* colour handed to option_traffic_light
    option_tl,      \* result of option_traffic_light
    closes,         \* historical_df["Close"]
    strategy,       \* strategy-toggle value
    technicals,     \* result of get_index_technicals
    index_tl,       \* result of index_traffic_light
    prices,         \* argument of compute_rsi
    period,         \* argument of compute_rsi
    rsi_series,     \* result of compute_rsi
    ar_args,        \* arguments of annualized_return
    ar_result,       \* result of annualized_return
    payoff_args, \* arguments of compute_payoff_table
    payoff_result, \* the table and the breakeven compute_payoff_table returns
    frames, \* the DataFrame objects that exist, by identity
    chain_df, \* the DataFrame passed to enrich_chain
    chain_input, \* the rows chain_df held when it was passed
    etf_price, \* underlying_prices[etf], in cents
    enriched, \* the DataFrame enrich_chain returned
    enriched_twice, \* the DataFrame enrich_chain returned for enriched
    sel_args, \* arguments of selected_option_color
    sel_result, \* result of selected_option_color
    chains, \* chains[etf][exp_key], the fetched option chains
    quotes, \* quotes[etf]["last"], in cents
    summary_vix_color, \* vix_tl["color"] as passed to etf_status_summary
    sp_color, \* sp_tl["color"]
    ndx_color, \* ndx_tl["color"]
    enriched_chains, \* the non-empty chains after enrich_chain
    etf_statuses, \* result of etf_status_summary
    greeks_args, \* arguments of compute_greeks
    greeks_out, \* what compute_greeks returned or raised
    provider_chain, \* the rows provider.get_option_chain returned
    quote_last, \* quotes[etf]["last"] as a float
    fetched_chain, \* chain_df as refresh_all caches it
    order_etf, \* the ETF whose chains are being counted
    order_colors, \* vix_color, sp_color and ndx_color of the pass
    order_chains, \* chains.get(etf, {}), enriched
    pending, \* the contracts (expiration, row) not yet processed
    counters, \* green_calls, green_puts and yellow_count so far
    lights, \* the traffic light given to each processed contract
    order_status, \* the entry of the ETF once every contract is processed
    toggle, \* strategy-toggle value
    market, \* the cached market data (get_market_data)
    shown_cards, \* the VIX, S&P and Nasdaq cards on the page
    shown_etf, \* the ETF status card on the page
    shown_table, \* the option chain table on the page
    cache, \* the in-memory _cache of data/cache.py
    now, \* time.time()
    written, \* per key, the last set that no clear followed
    observed, \* the last call on the cache and what it returned
    db, \* rows of the historical_prices table
    near_args, \* arguments of _find_nearest_expiration and the day it runs
    near_result, \* what it returned
    pick_in, \* selected_rows, table data and strategy seen by on_option_selected
    returned, \* the tuple on_option_selected returned last
    outputs, \* the five output properties on the page, and the callback error flag
    fcache, \* the _cache dict of data/cache.py under refresh_all
    fclock, \* time.time(), in units of half a TTL
    fdb, \* rows of historical_prices under refresh_all
    fret, \* what the last call of refresh_all or get_market_data returned
    flog \* the provider calls of the last pass, asked, raised and failed, and what preceded it

vars == <<pc, config, vix_level, vix_tl, chain_row, underlying_price, row,
          vix_color, index_color, option_tl, closes, strategy, technicals,
          index_tl, prices, period, rsi_series, ar_args, ar_result,
          payoff_args, payoff_result,
          frames, chain_df, chain_input, etf_price, enriched, enriched_twice,
          sel_args, sel_result,
          chains, quotes, summary_vix_color, sp_color, ndx_color, enriched_chains, etf_statuses,
          greeks_args, greeks_out,
          provider_chain, quote_last, fetched_chain,
          order_etf, order_colors, order_chains, pending, counters, lights, order_status,
          toggle, market, shown_cards, shown_etf, shown_table,
          cache, now, written, observed,
          db,
          near_args, near_result,
          pick_in, returned, outputs,
          fcache, fclock, fdb, fret, flog>>

vixVars  == <<vix_level, vix_tl>>
optVars  == <<chain_row, underlying_price, row, vix_color, index_color, option_tl>>
techVars == <<closes, strategy, technicals, index_tl>>
rsiVars  == <<prices, period, rsi_series>>
retVars  == <<ar_args, ar_result>>
payoffVars == <<payoff_args, payoff_result>>
chainVars == <<frames, chain_df, chain_input, etf_price, enriched, enriched_twice>>
selVars == <<sel_args, sel_result>>
summaryVars == <<chains, quotes, summary_vix_color, sp_color, ndx_color, enriched_chains, etf_statuses>>
greeksVars == <<greeks_args, greeks_out>>
passVars == <<provider_chain, quote_last, fetched_chain>>
orderVars == <<order_etf, order_colors, order_chains, pending, counters, lights, order_status>>
dashVars == <<toggle, market, shown_cards, shown_etf, shown_table>>
storeVars == <<cache, now, written, observed>>
histVars == <<db>>
nearVars == <<near_args, near_result>>
pickVars == <<pick_in, returned, outputs>>
fetchVars == <<fcache, fclock, fdb, fret, flog>>

\* the variables of the dashboard cards, and those of the functions that are
\* specified on their own
cardVars == <<vixVars, optVars, techVars, rsiVars>>
fnVars   == <<retVars, payoffVars, chainVars, selVars, summaryVars, greeksVars, passVars, orderVars, dashVars, storeVars, histVars, nearVars, pickVars, fetchVars>>
notRetVars == <<cardVars, payoffVars, chainVars, selVars, summaryVars, greeksVars, passVars, orderVars, dashVars, storeVars, histVars, nearVars, pickVars, fetchVars>>
notPayoffVars == <<cardVars, retVars, chainVars, selVars, summaryVars, greeksVars, passVars, orderVars, dashVars, storeVars, histVars, nearVars, pickVars, fetchVars>>
notChainVars == <<cardVars, retVars, payoffVars, selVars, summaryVars, greeksVars, passVars, orderVars, dashVars, storeVars, histVars, nearVars, pickVars, fetchVars>>
notSelVars == <<cardVars, retVars, payoffVars, chainVars, summaryVars, greeksVars, passVars, orderVars, dashVars, storeVars, histVars, nearVars, pickVars, fetchVars>>
notSummaryVars == <<cardVars, retVars, payoffVars, chainVars, selVars, greeksVars, passVars, orderVars, dashVars, storeVars, histVars, nearVars, pickVars, fetchVars>>
notGreeksVars == <<cardVars, retVars, payoffVars, chainVars, selVars, summaryVars, passVars, orderVars, dashVars, storeVars, histVars, nearVars, pickVars, fetchVars>>
notPassVars == <<cardVars, retVars, payoffVars, chainVars, selVars, summaryVars, greeksVars, orderVars, dashVars, storeVars, histVars, nearVars, pickVars, fetchVars>>
notOrderVars == <<cardVars, retVars, payoffVars, chainVars, selVars, summaryVars, greeksVars, passVars, dashVars, storeVars, histVars, nearVars, pickVars, fetchVars>>
notDashVars == <<cardVars, retVars, payoffVars, chainVars, selVars, summaryVars, greeksVars, passVars, orderVars, storeVars, histVars, nearVars, pickVars, fetchVars>>
notStoreVars == <<cardVars, retVars, payoffVars, chainVars, selVars, summaryVars, greeksVars, passVars, orderVars, dashVars, histVars, nearVars, pickVars, fetchVars>>
notHistVars == <<cardVars, retVars, payoffVars, chainVars, selVars, summaryVars, greeksVars, passVars, orderVars, dashVars, storeVars, nearVars, pickVars, fetchVars>>
notNearVars == <<cardVars, retVars, payoffVars, chainVars, selVars, summaryVars, greeksVars, passVars, orderVars, dashVars, storeVars, histVars, pickVars, fetchVars>>
notPickVars == <<cardVars, retVars, payoffVars, chainVars, selVars, summaryVars, greeksVars, passVars, orderVars, dashVars, storeVars, histVars, nearVars, fetchVars>>
notFetchVars == <<cardVars, retVars, payoffVars, chainVars, selVars, summaryVars, greeksVars, passVars, orderVars, dashVars, storeVars, histVars, nearVars, pickVars>>

-----------------------------------------------------------------------------
(* Python helpers *)

\* dict.get(k, default)
Get(d, k, default) == IF k \in DOMAIN d THEN d[k] ELSE default

\* the empty dict {}
EmptyDict == [k \in {} |-> 0]

\* round(num/den) to the nearest integer, ties to even (Python round, numpy
\* round); num >= 0, den > 0
RoundHalfEven(num, den) ==
    LET q == num \div den
        r == num % den
    IN  IF 2 * r < den THEN q
        ELSE IF 2 * r > den THEN q + 1
        ELSE IF q % 2 = 0 THEN q ELSE q + 1

Colors == {"green", "yellow", "red"}

\* a traffic light that has not been computed yet (the cards start slate)
NoLight == [color |-> "slate", label |-> "--"]

-----------------------------------------------------------------------------
(* traffic_lights.vix_traffic_light *)

VixGreenLabel  == "Favorable for premium selling"
VixRedLabel    == "Extreme stress - consider reducing size or pausing"
VixLowLabel    == "Low volatility - thin premiums"
VixElevLabel   == "Elevated risk - proceed with caution"

DefaultVixGreen == <<18, 28>>
DefaultVixRed   == 35

\* config.get("vix_regime", {}).get("green", [18, 28])
VixGreenRange(cfg) == Get(Get(cfg, "vix_regime", EmptyDict), "green", DefaultVixGreen)

\* config.get("vix_regime", {}).get("red", 35)
VixRedThreshold(cfg) == Get(Get(cfg, "vix_regime", EmptyDict), "red", DefaultVixRed)

\* mutant: the upper end of the green band taken as exclusive
vix_traffic_light_exclusive(level, cfg) ==
    LET green_range   == VixGreenRange(cfg)
        red_threshold == VixRedThreshold(cfg)
    IN  IF green_range[1] <= level /\ level < green_range[2]
        THEN [color |-> "green", label |-> VixGreenLabel]
        ELSE IF level >= red_threshold
        THEN [color |-> "red", label |-> VixRedLabel]
        ELSE IF level < green_range[1]
        THEN [color |-> "yellow", label |-> VixLowLabel]
        ELSE [color |-> "yellow", label |-> VixElevLabel]

vix_traffic_light(level, cfg) ==
    LET green_range   == VixGreenRange(cfg)
        red_threshold == VixRedThreshold(cfg)
    IN  IF green_range[1] <= level /\ level <= green_range[2]
        THEN [color |-> "green", label |-> VixGreenLabel]
        ELSE IF level >= red_threshold
        THEN [color |-> "red", label |-> VixRedLabel]
        ELSE IF level < green_range[1]
        THEN [color |-> "yellow", label |-> VixLowLabel]
        ELSE [color |-> "yellow", label |-> VixElevLabel]

-----------------------------------------------------------------------------
(* Floats that may be missing *)

\* a present number v (an option delta in hundredths)
Num(v) == [nan |-> FALSE, v |-> v]

\* NaN, or None: pd.isna holds of both
NaN == [nan |-> TRUE, v |-> 0]

-----------------------------------------------------------------------------
(* Number formatting in the tooltips *)

\* str(n) of a non-negative integer below 100 padded to two digits
TwoDigits(n) == IF n < 10 THEN "0" \o ToString(n) ELSE ToString(n)

\* f"{x:.1f}" of a non-negative x given in hundredths
Fmt1(h) ==
    LET t == RoundHalfEven(h, 10)
    IN  ToString(t \div 10) \o "." \o ToString(t % 10)

\* str(x) of a float x given in hundredths: the shortest decimal
FmtFloat(h) ==
    LET a    == IF h < 0 THEN -h ELSE h
        sign == IF h < 0 THEN "-" ELSE ""
        frac == a % 100
    IN  sign \o ToString(a \div 100) \o "." \o
        (IF frac % 10 = 0 THEN ToString(frac \div 10) ELSE TwoDigits(frac))

\* "; ".join(issues)
RECURSIVE Join(_)
Join(issues) ==
    IF issues = <<>> THEN ""
    ELSE IF Len(issues) = 1 THEN issues[1]
    ELSE issues[1] \o "; " \o Join(Tail(issues))

-----------------------------------------------------------------------------
(* options_analytics.annualized_return and options_analytics.enrich_chain *)

\* premium in ten-thousandths, price in cents, dte in days; result in
\* hundredths of a percent:
\* round(premium/price * 365/dte * 100, 2)
\* mutant: a year of 360 days
annualized_return_360(premium, price, dte) ==
    IF price <= 0 \/ dte <= 0 \/ premium <= 0
    THEN 0
    ELSE RoundHalfEven(premium * 36000, price * dte)

annualized_return(premium, price, dte) ==
    IF price <= 0 \/ dte <= 0 \/ premium <= 0
    THEN 0
    ELSE RoundHalfEven(premium * 36500, price * dte)

DefaultReturnTarget == 30
DefaultCallBand  == <<10, 50>>
DefaultCallFocus == <<20, 30>>
DefaultPutBand   == <<-50, -10>>
DefaultPutFocus  == <<-30, -20>>
DefaultMinOi      == 200
DefaultMinVolume  == 20
DefaultMarginalOi == 50

ReturnTarget(cfg) == Get(cfg, "annualized_return_target", DefaultReturnTarget)
DeltaBands(cfg)   == Get(cfg, "delta_bands", EmptyDict)
LiquidityCfg(cfg) == Get(cfg, "liquidity", EmptyDict)
CallBand(cfg)     == Get(DeltaBands(cfg), "short_calls", DefaultCallBand)
CallFocus(cfg)    == Get(DeltaBands(cfg), "short_calls_focus", DefaultCallFocus)
PutBand(cfg)      == Get(DeltaBands(cfg), "short_puts", DefaultPutBand)
PutFocus(cfg)     == Get(DeltaBands(cfg), "short_puts_focus", DefaultPutFocus)
MinOi(cfg)        == Get(LiquidityCfg(cfg), "min_oi", DefaultMinOi)
MinVolume(cfg)    == Get(LiquidityCfg(cfg), "min_volume", DefaultMinVolume)
MarginalOi(cfg)   == Get(LiquidityCfg(cfg), "marginal_oi", DefaultMarginalOi)

\* mutant: the upper end of the band is excluded
check_delta_ok_open(r, cfg) ==
    LET delta == Get(r, "delta", NaN)
    IN  IF delta.nan THEN FALSE
        ELSE IF r.type = "call"
        THEN CallBand(cfg)[1] <= delta.v /\ delta.v < CallBand(cfg)[2]
        ELSE PutBand(cfg)[1] <= delta.v /\ delta.v < PutBand(cfg)[2]

\* enrich_chain.check_delta_ok
check_delta_ok(r, cfg) ==
    LET delta == Get(r, "delta", NaN)
    IN  IF delta.nan THEN FALSE
        ELSE IF r.type = "call"
        THEN CallBand(cfg)[1] <= delta.v /\ delta.v <= CallBand(cfg)[2]
        ELSE PutBand(cfg)[1] <= delta.v /\ delta.v <= PutBand(cfg)[2]

\* enrich_chain.check_delta_focus
check_delta_focus(r, cfg) ==
    LET delta == Get(r, "delta", NaN)
    IN  IF delta.nan THEN FALSE
        ELSE IF r.type = "call"
        THEN CallFocus(cfg)[1] <= delta.v /\ delta.v <= CallFocus(cfg)[2]
        ELSE PutFocus(cfg)[1] <= delta.v /\ delta.v <= PutFocus(cfg)[2]

\* the mid-price of a row in ten-thousandths: ((bid + ask) / 2).round(4),
\* bid and ask in cents
Mid(r) == RoundHalfEven((r.bid + r.ask) * 10000, 200)

\* mutant: liquidity_marginal looks at the open interest only
enrich_row_oi_only(r, price, cfg) ==
    LET mid        == Mid(r)
        ann_return == annualized_return(mid, price, r.dte)
    IN  [mid                |-> mid,
         ann_return         |-> ann_return,
         return_ok          |-> ann_return >= 100 * ReturnTarget(cfg),
         delta_ok           |-> check_delta_ok(r, cfg),
         delta_in_focus     |-> check_delta_focus(r, cfg),
         liquidity_ok       |-> r.openInterest >= MinOi(cfg)
                                /\ r.volume >= MinVolume(cfg),
         liquidity_marginal |-> r.openInterest < MinOi(cfg)
                                /\ r.openInterest >= MarginalOi(cfg)]
        @@ r

\* enrich_chain on one row of a non-empty chain: the row with the computed
\* columns added (an assignment to a column that exists replaces it)
enrich_row(r, price, cfg) ==
    LET mid        == Mid(r)
        ann_return == annualized_return(mid, price, r.dte)
    IN  [mid                |-> mid,
         ann_return         |-> ann_return,
         return_ok          |-> ann_return >= 100 * ReturnTarget(cfg),
         delta_ok           |-> check_delta_ok(r, cfg),
         delta_in_focus     |-> check_delta_focus(r, cfg),
         liquidity_ok       |-> r.openInterest >= MinOi(cfg)
                                /\ r.volume >= MinVolume(cfg),
         liquidity_marginal |-> (r.openInterest < MinOi(cfg)
                                 /\ r.openInterest >= MarginalOi(cfg))
                                \/ (r.volume < MinVolume(cfg) /\ r.volume > 0)]
        @@ r

\* df.apply / column assignment over every row of a frame
EnrichRows(rows, price, cfg) ==
    [i \in DOMAIN rows |-> enrich_row(rows[i], price, cfg)]

\* the identity of the next DataFrame object
NewFrame(fr) == Cardinality(DOMAIN fr) + 1

\* mutant: the columns are written to the frame passed in
enrich_chain_in_place(fr, ref, price, cfg) ==
    IF fr[ref] = <<>> THEN [frames |-> fr, result |-> ref]
    ELSE [frames |-> [fr EXCEPT ![ref] = EnrichRows(fr[ref], price, cfg)],
          result |-> ref]

\* enrich_chain(chain_df, underlying_price, config) on the DataFrame objects
\* fr, chain_df being the object ref: an empty frame is returned as it is;
\* otherwise df = chain_df.copy() is a new object and every column is
\* assigned on df
enrich_chain(fr, ref, price, cfg) ==
    IF fr[ref] = <<>> THEN [frames |-> fr, result |-> ref]
    ELSE LET df == NewFrame(fr)
         IN  [frames |-> (df :> EnrichRows(fr[ref], price, cfg)) @@ fr,
              result |-> df]

-----------------------------------------------------------------------------
(* traffic_lights.option_traffic_light *)

ReturnTooltip(ann_return) ==
    "Annualized return " \o Fmt1(ann_return) \o "% below target"

\* option_row.get("delta", "N/A") rendered in the tooltip
DeltaTooltip(r) ==
    "Delta " \o
    (IF "delta" \notin DOMAIN r THEN "N/A"
     ELSE IF r.delta.nan THEN "nan"
     ELSE FmtFloat(r.delta.v))
    \o " outside allowed band"

LowLiquidityTooltip(oi, volume) ==
    "Very low liquidity (OI=" \o ToString(oi) \o ", Vol=" \o ToString(volume) \o ")"

HighRiskTooltip == "High-risk environment - VIX and index both red"

GreenTooltip(ann_return) ==
    "ok " \o Fmt1(ann_return) \o "% annualized, delta in band, "
    \o "liquidity OK, VIX & index regime supportive"

MarginalTooltip(oi, volume) ==
    "Marginal liquidity (OI=" \o ToString(oi) \o ", Vol=" \o ToString(volume) \o ")"

VixYellowIssue == "VIX in yellow zone"
VixRedIssue    == "VIX in red zone"
IndexIssue(ic) == "Index technical is " \o ic
NearThreshold  == "Near threshold"

\* "; ".join(issues) if issues else "Near threshold"
YellowTooltip(issues) == IF issues # <<>> THEN Join(issues) ELSE NearThreshold

\* mutant: the delta check is made before the return check
option_traffic_light_delta_first(r, vc, ic, cfg) ==
    LET return_ok    == Get(r, "return_ok", FALSE)
        delta_ok     == Get(r, "delta_ok", FALSE)
        liquidity_ok == Get(r, "liquidity_ok", FALSE)
        vix_ok       == vc # "red"
        index_ok     == ic \in {"green", "yellow"}
        oi           == Get(r, "openInterest", 0)
        volume       == Get(r, "volume", 0)
        ann_return   == Get(r, "ann_return", 0)
        marginal_oi  == MarginalOi(cfg)
    IN
        IF ~delta_ok
        THEN [color |-> "red", tooltip |-> DeltaTooltip(r)]
        ELSE IF ~return_ok
        THEN [color |-> "red", tooltip |-> ReturnTooltip(ann_return)]
        ELSE IF oi < marginal_oi \/ volume = 0
        THEN [color |-> "red", tooltip |-> LowLiquidityTooltip(oi, volume)]
        ELSE IF vc = "red" /\ ic = "red"
        THEN [color |-> "red", tooltip |-> HighRiskTooltip]
        ELSE IF return_ok /\ delta_ok /\ liquidity_ok /\ vix_ok /\ index_ok
        THEN [color |-> "green", tooltip |-> GreenTooltip(ann_return)]
        ELSE [color |-> "yellow", tooltip |-> YellowTooltip(
                   (IF ~liquidity_ok THEN <<MarginalTooltip(oi, volume)>> ELSE <<>>) \o
                   (IF vc = "yellow" THEN <<VixYellowIssue>> ELSE <<>>) \o
                   (IF vc = "red" THEN <<VixRedIssue>> ELSE <<>>) \o
                   (IF ic \in {"yellow", "red"} THEN <<IndexIssue(ic)>> ELSE <<>>))]

\* mutant: the green test forgets the liquidity flag
option_traffic_light_no_liquidity(r, vc, ic, cfg) ==
    LET return_ok    == Get(r, "return_ok", FALSE)
        delta_ok     == Get(r, "delta_ok", FALSE)
        liquidity_ok == Get(r, "liquidity_ok", FALSE)
        vix_ok       == vc # "red"
        index_ok     == ic \in {"green", "yellow"}
        oi           == Get(r, "openInterest", 0)
        volume       == Get(r, "volume", 0)
        ann_return   == Get(r, "ann_return", 0)
        marginal_oi  == MarginalOi(cfg)
    IN
        IF ~return_ok
        THEN [color |-> "red", tooltip |-> ReturnTooltip(ann_return)]
        ELSE IF ~delta_ok
        THEN [color |-> "red", tooltip |-> DeltaTooltip(r)]
        ELSE IF oi < marginal_oi \/ volume = 0
        THEN [color |-> "red", tooltip |-> LowLiquidityTooltip(oi, volume)]
        ELSE IF vc = "red" /\ ic = "red"
        THEN [color |-> "red", tooltip |-> HighRiskTooltip]
        ELSE IF return_ok /\ delta_ok /\ vix_ok /\ index_ok
        THEN [color |-> "green", tooltip |-> GreenTooltip(ann_return)]
        ELSE [color |-> "yellow", tooltip |-> YellowTooltip(
                   (IF ~liquidity_ok THEN <<MarginalTooltip(oi, volume)>> ELSE <<>>) \o
                   (IF vc = "yellow" THEN <<VixYellowIssue>> ELSE <<>>) \o
                   (IF vc = "red" THEN <<VixRedIssue>> ELSE <<>>) \o
                   (IF ic \in {"yellow", "red"} THEN <<IndexIssue(ic)>> ELSE <<>>))]

\* mutant: a red VIX is not listed among the issues of a yellow contract
option_traffic_light_no_vix_red(r, vc, ic, cfg) ==
    LET return_ok    == Get(r, "return_ok", FALSE)
        delta_ok     == Get(r, "delta_ok", FALSE)
        liquidity_ok == Get(r, "liquidity_ok", FALSE)
        vix_ok       == vc # "red"
        index_ok     == ic \in {"green", "yellow"}
        oi           == Get(r, "openInterest", 0)
        volume       == Get(r, "volume", 0)
        ann_return   == Get(r, "ann_return", 0)
        marginal_oi  == MarginalOi(cfg)
    IN
        IF ~return_ok
        THEN [color |-> "red", tooltip |-> ReturnTooltip(ann_return)]
        ELSE IF ~delta_ok
        THEN [color |-> "red", tooltip |-> DeltaTooltip(r)]
        ELSE IF oi < marginal_oi \/ volume = 0
        THEN [color |-> "red", tooltip |-> LowLiquidityTooltip(oi, volume)]
        ELSE IF vc = "red" /\ ic = "red"
        THEN [color |-> "red", tooltip |-> HighRiskTooltip]
        ELSE IF return_ok /\ delta_ok /\ liquidity_ok /\ vix_ok /\ index_ok
        THEN [color |-> "green", tooltip |-> GreenTooltip(ann_return)]
        ELSE [color |-> "yellow", tooltip |-> YellowTooltip(
                   (IF ~liquidity_ok THEN <<MarginalTooltip(oi, volume)>> ELSE <<>>) \o
                   (IF vc = "yellow" THEN <<VixYellowIssue>> ELSE <<>>) \o
                   (IF ic \in {"yellow", "red"} THEN <<IndexIssue(ic)>> ELSE <<>>))]

option_traffic_light(r, vc, ic, cfg) ==
    LET return_ok    == Get(r, "return_ok", FALSE)
        delta_ok     == Get(r, "delta_ok", FALSE)
        liquidity_ok == Get(r, "liquidity_ok", FALSE)
        vix_ok       == vc # "red"
        index_ok     == ic \in {"green", "yellow"}
        oi           == Get(r, "openInterest", 0)
        volume       == Get(r, "volume", 0)
        ann_return   == Get(r, "ann_return", 0)
        marginal_oi  == MarginalOi(cfg)
    IN
        IF ~return_ok
        THEN [color |-> "red", tooltip |-> ReturnTooltip(ann_return)]
        ELSE IF ~delta_ok
        THEN [color |-> "red", tooltip |-> DeltaTooltip(r)]
        ELSE IF oi < marginal_oi \/ volume = 0
        THEN [color |-> "red", tooltip |-> LowLiquidityTooltip(oi, volume)]
        ELSE IF vc = "red" /\ ic = "red"
        THEN [color |-> "red", tooltip |-> HighRiskTooltip]
        ELSE IF return_ok /\ delta_ok /\ liquidity_ok /\ vix_ok /\ index_ok
        THEN [color |-> "green", tooltip |-> GreenTooltip(ann_return)]
        ELSE [color |-> "yellow", tooltip |-> YellowTooltip(
                   (IF ~liquidity_ok THEN <<MarginalTooltip(oi, volume)>> ELSE <<>>) \o
                   (IF vc = "yellow" THEN <<VixYellowIssue>> ELSE <<>>) \o
                   (IF vc = "red" THEN <<VixRedIssue>> ELSE <<>>) \o
                   (IF ic \in {"yellow", "red"} THEN <<IndexIssue(ic)>> ELSE <<>>))]

-----------------------------------------------------------------------------
(* Unrounded floats of calculations/technicals.py: the fraction num/den,   *)
(* NaN, or +inf.  Closes are whole numbers, so every sum and every mean    *)
(* the code forms is exact.                                                *)

FNum(num, den) == [k |-> "num", num |-> num, den |-> den]
FNaN == [k |-> "nan", num |-> 0, den |-> 1]
FInf == [k |-> "inf", num |-> 0, den |-> 1]

\* pd.notna(x)
notna(x) == x.k # "nan"

\* x > y, x < y of two finite non-negative fractions
FGt(x, y) == x.num * y.den > y.num * x.den
FLt(x, y) == x.num * y.den < y.num * x.den

\* round(x, 2) of a finite non-negative fraction, in hundredths
Round2(x) ==
    LET q == x.num \div x.den
        r == x.num % x.den
    IN  100 * q + RoundHalfEven(100 * r, x.den)

\* numerator / denominator of two pandas float Series at one bar: no
\* exception, 0/0 is NaN and x/0 is +inf
FDiv(a, b) ==
    IF b = 0 THEN (IF a = 0 THEN FNaN ELSE FInf) ELSE FNum(a, b)

RECURSIVE Pow(_, _)
Pow(b, n) == IF n = 0 THEN 1 ELSE b * Pow(b, n - 1)

RECURSIVE SumRange(_, _, _)
SumRange(p, a, b) == IF a > b THEN 0 ELSE p[b] + SumRange(p, a, b - 1)

-----------------------------------------------------------------------------
(* technicals.compute_sma *)

\* prices.rolling(window=window, min_periods=window).mean(): one value per
\* bar, NaN until window closes exist
compute_sma(p, window) ==
    [i \in 1..Len(p) |->
        IF i < window THEN FNaN
        ELSE FNum(SumRange(p, i - window + 1, i), window)]

-----------------------------------------------------------------------------
(* technicals.compute_rsi *)

\* gain = delta.where(delta > 0, 0.0) and loss = (-delta).where(delta < 0,
\* 0.0) at bar i; the first bar has no delta and gets 0.0 in both
Change(p, i, side) ==
    IF i = 1 THEN 0
    ELSE IF side = "gain"
    THEN (IF p[i] - p[i - 1] > 0 THEN p[i] - p[i - 1] ELSE 0)
    ELSE (IF p[i] - p[i - 1] < 0 THEN p[i - 1] - p[i] ELSE 0)

\* the first and the last bar up to i whose close differs from the bar before
FirstChange(p, i) ==
    LET c == { j \in 2..i : p[j] # p[j - 1] }
    IN  IF c = {} THEN i + 1 ELSE CHOOSE j \in c : \A h \in c : j <= h
LastChange(p, i) ==
    LET c == { j \in 2..i : p[j] # p[j - 1] }
    IN  IF c = {} THEN 0 ELSE CHOOSE j \in c : \A h \in c : j >= h

\* ewm(alpha=1/period, adjust=False): y[j] = ((period-1) y[j-1] + x[j]) / period
\* with y = 0 before the first change s; Ewm is period^(j-s+1) * y[j]
RECURSIVE Ewm(_, _, _, _, _)
Ewm(p, q, side, s, j) ==
    IF j < s THEN 0
    ELSE (q - 1) * Ewm(p, q, side, s, j - 1) + Pow(q, j - s) * Change(p, j, side)

\* avg_gain and avg_loss at bar i, both times the same positive factor:
\* a bar without change multiplies both by (period-1)/period, so the value at
\* the last change e stands for the value at i
Avg(p, q, side, i) ==
    LET s == FirstChange(p, i)
        e == LastChange(p, i)
    IN  IF e = 0 THEN 0 ELSE Ewm(p, q, side, s, e)

\* mutant: a zero average loss is taken to make the RSI undefined
rsi_at_no_saturation(p, q, i) ==
    IF i < q THEN FNaN
    ELSE LET rs == FDiv(Avg(p, q, "gain", i), Avg(p, q, "loss", i))
         IN  IF rs.k = "nan" \/ rs.k = "inf" THEN FNaN
             ELSE FNum(100 * rs.num, rs.num + rs.den)

\* rs = avg_gain / avg_loss; rsi = 100 - 100 / (1 + rs), at bar i.
\* min_periods=period leaves the first period-1 bars NaN; with rs = a/b,
\* 100 - 100/(1 + a/b) = 100a/(a + b); with rs = +inf, 100 - 100/inf = 100
rsi_at(p, q, i) ==
    IF i < q THEN FNaN
    ELSE LET rs == FDiv(Avg(p, q, "gain", i), Avg(p, q, "loss", i))
         IN  IF rs.k = "nan" THEN FNaN
             ELSE IF rs.k = "inf" THEN FNum(100, 1)
             ELSE FNum(100 * rs.num, rs.num + rs.den)

compute_rsi(p, q) == [i \in 1..Len(p) |-> rsi_at(p, q, i)]

-----------------------------------------------------------------------------
(* technicals.get_index_technicals.  Snapshot numbers (price, sma20, sma50, *)
(* sma100, rsi14) are in hundredths, as round(x, 2) leaves them.           *)

DefaultSnapshot ==
    [price |-> 0, sma20 |-> 0, sma50 |-> 0, sma100 |-> 0, rsi14 |-> 5000,
     above_sma20 |-> FALSE, above_sma50 |-> FALSE, above_sma100 |-> FALSE,
     below_sma20 |-> FALSE, below_sma50 |-> FALSE, below_sma100 |-> FALSE,
     rsi_label |-> "N/A"]

\* float(series.iloc[-1]) if pd.notna(series.iloc[-1]) else fallback
LatestOr(series, n, fallback) ==
    IF notna(series[n]) THEN series[n] ELSE FNum(fallback, 1)

latest_price(c) == FNum(c[Len(c)], 1)
latest_sma(c, window) == LatestOr(compute_sma(c, window), Len(c), 0)
latest_rsi(c) == LatestOr(compute_rsi(c, 14), Len(c), 50)

\* mutant: the Overbought range is open at 70
rsi_label_open_at_70(r) ==
    IF r.num > 70 * r.den THEN "Overbought"
    ELSE IF r.num <= 30 * r.den THEN "Oversold"
    ELSE IF 40 * r.den <= r.num /\ r.num <= 60 * r.den THEN "Neutral"
    ELSE IF r.num > 60 * r.den THEN "Bullish"
    ELSE "Bearish"

\* the if-chain over the unrounded latest_rsi
rsi_label(r) ==
    IF r.num >= 70 * r.den THEN "Overbought"
    ELSE IF r.num <= 30 * r.den THEN "Oversold"
    ELSE IF 40 * r.den <= r.num /\ r.num <= 60 * r.den THEN "Neutral"
    ELSE IF r.num > 60 * r.den THEN "Bullish"
    ELSE "Bearish"

\* the snapshot of a non-empty history
Snapshot(c) ==
    LET p == latest_price(c)
        s20 == latest_sma(c, 20)
        s50 == latest_sma(c, 50)
        s100 == latest_sma(c, 100)
        r == latest_rsi(c)
    IN  [price |-> Round2(p), sma20 |-> Round2(s20), sma50 |-> Round2(s50),
         sma100 |-> Round2(s100), rsi14 |-> Round2(r),
         above_sma20 |-> FGt(p, s20), above_sma50 |-> FGt(p, s50),
         above_sma100 |-> FGt(p, s100),
         below_sma20 |-> FLt(p, s20), below_sma50 |-> FLt(p, s50),
         below_sma100 |-> FLt(p, s100),
         rsi_label |-> rsi_label(r)]

get_index_technicals(c) ==
    IF c = <<>> THEN DefaultSnapshot ELSE Snapshot(c)

-----------------------------------------------------------------------------
(* traffic_lights.index_traffic_light *)

ShortCallsGreenLabel == "Favorable for Short Calls - weakening trend + overbought"
ShortCallsRedLabel == "Avoid Short Calls - strong uptrend still building"
ShortCallsYellowLabel == "Mixed signals for Short Calls - proceed with caution"
CspGreenLabel == "Favorable for CSP - uptrend with pullback"
CspRedLabel == "Avoid CSP - falling knife risk"
CspYellowLabel == "Mixed signals for CSP - proceed with caution"

DefaultNeutralLow == 40
DefaultNeutralHigh == 60

RsiCfg(cfg) == Get(cfg, "rsi_thresholds", EmptyDict)
NeutralLow(cfg) == Get(RsiCfg(cfg), "neutral_low", DefaultNeutralLow)
NeutralHigh(cfg) == Get(RsiCfg(cfg), "neutral_high", DefaultNeutralHigh)

\* mutant: the downtrend test reads the below flags
short_calls_light_below(t, cfg) ==
    LET above_sma20 == Get(t, "above_sma20", FALSE)
        above_sma50 == Get(t, "above_sma50", FALSE)
        above_sma100 == Get(t, "above_sma100", FALSE)
        rsi == Get(t, "rsi14", 5000)
        sma20 == Get(t, "sma20", 0)
        sma50 == Get(t, "sma50", 0)
        downtrend_or_weakening ==
            \/ Get(t, "below_sma20", FALSE) /\ Get(t, "below_sma50", FALSE)
            \/ sma20 < sma50 /\ sma20 > 0 /\ sma50 > 0
        strong_uptrend == above_sma20 /\ above_sma50 /\ above_sma100
    IN  IF downtrend_or_weakening /\ rsi >= 100 * NeutralHigh(cfg)
        THEN [color |-> "green", label |-> ShortCallsGreenLabel]
        ELSE IF strong_uptrend /\ rsi < 100 * NeutralHigh(cfg)
        THEN [color |-> "red", label |-> ShortCallsRedLabel]
        ELSE [color |-> "yellow", label |-> ShortCallsYellowLabel]

\* the short_calls branch
short_calls_light(t, cfg) ==
    LET above_sma20 == Get(t, "above_sma20", FALSE)
        above_sma50 == Get(t, "above_sma50", FALSE)
        above_sma100 == Get(t, "above_sma100", FALSE)
        rsi == Get(t, "rsi14", 5000)
        sma20 == Get(t, "sma20", 0)
        sma50 == Get(t, "sma50", 0)
        downtrend_or_weakening ==
            \/ ~above_sma20 /\ ~above_sma50
            \/ sma20 < sma50 /\ sma20 > 0 /\ sma50 > 0
        strong_uptrend == above_sma20 /\ above_sma50 /\ above_sma100
    IN  IF downtrend_or_weakening /\ rsi >= 100 * NeutralHigh(cfg)
        THEN [color |-> "green", label |-> ShortCallsGreenLabel]
        ELSE IF strong_uptrend /\ rsi < 100 * NeutralHigh(cfg)
        THEN [color |-> "red", label |-> ShortCallsRedLabel]
        ELSE [color |-> "yellow", label |-> ShortCallsYellowLabel]

\* mutant: the falling-knife test reads the below flags
csp_light_below(t, cfg) ==
    LET above_sma20 == Get(t, "above_sma20", FALSE)
        above_sma50 == Get(t, "above_sma50", FALSE)
        above_sma100 == Get(t, "above_sma100", FALSE)
        rsi == Get(t, "rsi14", 5000)
        strong_uptrend == above_sma20 /\ above_sma50 /\ above_sma100
        strong_downtrend ==
            Get(t, "below_sma50", FALSE) /\ Get(t, "below_sma100", FALSE)
    IN  IF strong_uptrend /\ rsi <= 100 * NeutralLow(cfg)
        THEN [color |-> "green", label |-> CspGreenLabel]
        ELSE IF strong_downtrend /\ rsi < 100 * NeutralLow(cfg)
        THEN [color |-> "red", label |-> CspRedLabel]
        ELSE [color |-> "yellow", label |-> CspYellowLabel]

\* the else branch (cash-secured puts)
csp_light(t, cfg) ==
    LET above_sma20 == Get(t, "above_sma20", FALSE)
        above_sma50 == Get(t, "above_sma50", FALSE)
        above_sma100 == Get(t, "above_sma100", FALSE)
        rsi == Get(t, "rsi14", 5000)
        strong_uptrend == above_sma20 /\ above_sma50 /\ above_sma100
        strong_downtrend == ~above_sma50 /\ ~above_sma100
    IN  IF strong_uptrend /\ rsi <= 100 * NeutralLow(cfg)
        THEN [color |-> "green", label |-> CspGreenLabel]
        ELSE IF strong_downtrend /\ rsi < 100 * NeutralLow(cfg)
        THEN [color |-> "red", label |-> CspRedLabel]
        ELSE [color |-> "yellow", label |-> CspYellowLabel]

index_traffic_light(t, strat, cfg) ==
    IF strat = "short_calls" THEN short_calls_light(t, cfg)
    ELSE csp_light(t, cfg)

-----------------------------------------------------------------------------
(* Values of the variables a specification does not use *)

NoRow         == EmptyDict
NoOptionLight == [color |-> "slate", tooltip |-> ""]

IdleVix  == vix_level = 0 /\ vix_tl = NoLight
IdleOpt  == /\ chain_row = NoRow
            /\ underlying_price = 0
            /\ row = NoRow
            /\ vix_color = "green"
            /\ index_color = "green"
            /\ option_tl = NoOptionLight
IdleRsi  == prices = <<>> /\ period = 14 /\ rsi_series = <<>>
IdleTechForOpt == /\ closes = <<>>
                  /\ strategy = "short_calls"
                  /\ technicals = EmptyDict
                  /\ index_tl = NoLight
IdleCards == IdleVix /\ IdleOpt /\ IdleTechForOpt /\ IdleRsi
IdleRet  == ar_args = EmptyDict /\ ar_result = 0
IdlePayoff == payoff_args = EmptyDict /\ payoff_result = EmptyDict
IdleChain == frames = EmptyDict /\ chain_df = 0 /\ chain_input = <<>> /\ etf_price = 0 /\ enriched = 0 /\ enriched_twice = 0
IdleSel == sel_args = EmptyDict /\ sel_result = NoLight
IdleSummary == chains = EmptyDict /\ quotes = EmptyDict /\ summary_vix_color = "green" /\ sp_color = "green" /\ ndx_color = "green" /\ enriched_chains = EmptyDict /\ etf_statuses = <<>>
IdleGreeks == greeks_args = EmptyDict /\ greeks_out = EmptyDict
IdlePass == provider_chain = <<>> /\ quote_last = 0 /\ fetched_chain = <<>>
IdleOrder == order_etf = "" /\ order_colors = EmptyDict /\ order_chains = EmptyDict /\ pending = {} /\ counters = EmptyDict /\ lights = EmptyDict /\ order_status = EmptyDict
IdleDash == toggle = "short_calls" /\ market = EmptyDict /\ shown_cards = EmptyDict /\ shown_etf = <<>> /\ shown_table = <<>>
IdleStore == cache = EmptyDict /\ now = 0 /\ written = EmptyDict /\ observed = EmptyDict
IdleHist == db = {}
IdleNear == near_args = EmptyDict /\ near_result = EmptyDict
IdlePick == pick_in = EmptyDict /\ returned = <<>> /\ outputs = EmptyDict
IdleFetch == fcache = EmptyDict /\ fclock = 0 /\ fdb = {} /\ fret = EmptyDict /\ flog = EmptyDict
IdleFn   == IdleRet /\ IdlePayoff /\ IdleChain /\ IdleSel /\ IdleSummary /\ IdleGreeks /\ IdlePass /\ IdleOrder /\ IdleDash /\ IdleStore /\ IdleHist /\ IdleNear /\ IdlePick /\ IdleFetch
IdleNotRet == IdleCards /\ IdlePayoff /\ IdleChain /\ IdleSel /\ IdleSummary /\ IdleGreeks /\ IdlePass /\ IdleOrder /\ IdleDash /\ IdleStore /\ IdleHist /\ IdleNear /\ IdlePick /\ IdleFetch
IdleNotPayoff == IdleCards /\ IdleRet /\ IdleChain /\ IdleSel /\ IdleSummary /\ IdleGreeks /\ IdlePass /\ IdleOrder /\ IdleDash /\ IdleStore /\ IdleHist /\ IdleNear /\ IdlePick /\ IdleFetch
IdleNotChain == IdleCards /\ IdleRet /\ IdlePayoff /\ IdleSel /\ IdleSummary /\ IdleGreeks /\ IdlePass /\ IdleOrder /\ IdleDash /\ IdleStore /\ IdleHist /\ IdleNear /\ IdlePick /\ IdleFetch
IdleNotSel == IdleCards /\ IdleRet /\ IdlePayoff /\ IdleChain /\ IdleSummary /\ IdleGreeks /\ IdlePass /\ IdleOrder /\ IdleDash /\ IdleStore /\ IdleHist /\ IdleNear /\ IdlePick /\ IdleFetch
IdleNotSummary == IdleCards /\ IdleRet /\ IdlePayoff /\ IdleChain /\ IdleSel /\ IdleGreeks /\ IdlePass /\ IdleOrder /\ IdleDash /\ IdleStore /\ IdleHist /\ IdleNear /\ IdlePick /\ IdleFetch
IdleNotGreeks == IdleCards /\ IdleRet /\ IdlePayoff /\ IdleChain /\ IdleSel /\ IdleSummary /\ IdlePass /\ IdleOrder /\ IdleDash /\ IdleStore /\ IdleHist /\ IdleNear /\ IdlePick /\ IdleFetch
IdleNotPass == IdleCards /\ IdleRet /\ IdlePayoff /\ IdleChain /\ IdleSel /\ IdleSummary /\ IdleGreeks /\ IdleOrder /\ IdleDash /\ IdleStore /\ IdleHist /\ IdleNear /\ IdlePick /\ IdleFetch
IdleNotOrder == IdleCards /\ IdleRet /\ IdlePayoff /\ IdleChain /\ IdleSel /\ IdleSummary /\ IdleGreeks /\ IdlePass /\ IdleDash /\ IdleStore /\ IdleHist /\ IdleNear /\ IdlePick /\ IdleFetch
IdleNotDash == IdleCards /\ IdleRet /\ IdlePayoff /\ IdleChain /\ IdleSel /\ IdleSummary /\ IdleGreeks /\ IdlePass /\ IdleOrder /\ IdleStore /\ IdleHist /\ IdleNear /\ IdlePick /\ IdleFetch
IdleNotStore == IdleCards /\ IdleRet /\ IdlePayoff /\ IdleChain /\ IdleSel /\ IdleSummary /\ IdleGreeks /\ IdlePass /\ IdleOrder /\ IdleDash /\ IdleHist /\ IdleNear /\ IdlePick /\ IdleFetch
IdleNotHist == IdleCards /\ IdleRet /\ IdlePayoff /\ IdleChain /\ IdleSel /\ IdleSummary /\ IdleGreeks /\ IdlePass /\ IdleOrder /\ IdleDash /\ IdleStore /\ IdleNear /\ IdlePick /\ IdleFetch
IdleNotNear == IdleCards /\ IdleRet /\ IdlePayoff /\ IdleChain /\ IdleSel /\ IdleSummary /\ IdleGreeks /\ IdlePass /\ IdleOrder /\ IdleDash /\ IdleStore /\ IdleHist /\ IdlePick /\ IdleFetch
IdleNotPick == IdleCards /\ IdleRet /\ IdlePayoff /\ IdleChain /\ IdleSel /\ IdleSummary /\ IdleGreeks /\ IdlePass /\ IdleOrder /\ IdleDash /\ IdleStore /\ IdleHist /\ IdleNear /\ IdleFetch
IdleNotFetch == IdleCards /\ IdleRet /\ IdlePayoff /\ IdleChain /\ IdleSel /\ IdleSummary /\ IdleGreeks /\ IdlePass /\ IdleOrder /\ IdleDash /\ IdleStore /\ IdleHist /\ IdleNear /\ IdlePick

-----------------------------------------------------------------------------
(* Specification Spec: one contract through enrich_chain and               *)
(* option_traffic_light, as refresh_dashboard and                          *)
(* update_chain_on_control_change run them for every row of a chain.       *)

\* liquidity sections of config.yaml: the shipped defaults written out, a
\* section that sets only min_oi, one with min_volume 0, one whose marginal
\* floor lies above min_oi
LiquidityChoices ==
    { [min_oi |-> 200, min_volume |-> 20, marginal_oi |-> 50],
      [min_oi |-> 100],
      [min_oi |-> 200, min_volume |-> 0, marginal_oi |-> 50],
      [min_oi |-> 40, min_volume |-> 20, marginal_oi |-> 50] }

CustomDeltaBands ==
    [short_calls |-> <<10, 25>>, short_calls_focus |-> <<20, 25>>,
     short_puts |-> <<-25, -10>>, short_puts_focus |-> <<-25, -20>>]

OptionConfigs ==
    {EmptyDict}
    \cup { "liquidity" :> l : l \in LiquidityChoices }
    \cup { "annualized_return_target" :> 300 }
    \cup { "delta_bands" :> CustomDeltaBands }
    \cup { ("annualized_return_target" :> 20) @@ ("liquidity" :> [min_oi |-> 100])
           @@ ("delta_bands" :> CustomDeltaBands) }

\* <<bid, ask, dte>>, bid and ask in cents
Premiums == { <<100, 140, 7>>, <<20, 40, 365>>, <<2, 4, 30>> }

\* quotes[etf]["last"] in cents; 0 when the quote is missing
UnderlyingPrices == {0, 100, 2400}

OpenInterests == {0, 49, 50, 200}
Volumes       == {0, 1, 20}

\* magnitudes of delta in hundredths; a put carries the negative
DeltaMagnitudes == {9, 10, 20, 25, 30, 50, 51}

\* the provider rows: with a delta, with a NaN delta, without a delta column
ChainRows ==
    LET base == { [type |-> t, bid |-> p[1], ask |-> p[2], dte |-> p[3],
                   openInterest |-> oi, volume |-> v] :
                  t \in {"call", "put"}, p \in Premiums,
                  oi \in OpenInterests, v \in Volumes }
        deltas(t) == {NaN} \cup { Num(IF t = "call" THEN m ELSE -m) :
                                  m \in DeltaMagnitudes }
    IN  base \cup UNION { { ("delta" :> d) @@ b : d \in deltas(b.type) } : b \in base }

Init ==
    /\ pc = "row"
    /\ config \in OptionConfigs
    /\ chain_row \in ChainRows
    /\ underlying_price \in UnderlyingPrices
    /\ vix_color \in Colors
    /\ index_color \in Colors
    /\ row = NoRow
    /\ option_tl = NoOptionLight
    /\ IdleVix /\ IdleTechForOpt /\ IdleRsi /\ IdleFn

\* enrich_chain(chain_df, underlying_price, config)
EnrichChain ==
    /\ pc = "row"
    /\ row' = enrich_row(chain_row, underlying_price, config)
    /\ pc' = "enriched"
    /\ UNCHANGED <<fnVars, config, chain_row, underlying_price, vix_color, index_color,
                   option_tl, vixVars, techVars, rsiVars>>

\* tl = option_traffic_light(row, vix_tl["color"], idx_color, config)
OptionTrafficLight ==
    /\ pc = "enriched"
    /\ option_tl' = option_traffic_light(row, vix_color, index_color, config)
    /\ pc' = "classified"
    /\ UNCHANGED <<fnVars, config, chain_row, underlying_price, row, vix_color,
                   index_color, vixVars, techVars, rsiVars>>

Next == EnrichChain \/ OptionTrafficLight

Spec == Init /\ [][Next]_vars

-----------------------------------------------------------------------------
(* Claims about option_traffic_light, checked under Spec *)

\* the four RED checks of the cascade, read off the classified row
RedCheck1 == ~row.return_ok
RedCheck2 == ~row.delta_ok
RedCheck3 == row.openInterest < MarginalOi(config) \/ row.volume = 0
RedCheck4 == vix_color = "red" /\ index_color = "red"

\* the five GREEN conditions
FiveConditions ==
    /\ row.return_ok
    /\ row.delta_ok
    /\ row.liquidity_ok
    /\ vix_color # "red"
    /\ index_color # "red"

\* C1: the RED checks are a first-match-wins cascade in the order return_ok,
\* delta_ok, very low liquidity, VIX and index both red: the result is red
\* with the explanation of the lowest-numbered check that fires; a row with
\* return_ok false is red with the return-below-target explanation whatever
\* its other fields are.
C1_RedCascade ==
    pc = "classified" =>
        /\ RedCheck1 =>
               option_tl = [color |-> "red",
                            tooltip |-> ReturnTooltip(row.ann_return)]
        /\ ~RedCheck1 /\ RedCheck2 =>
               option_tl = [color |-> "red", tooltip |-> DeltaTooltip(row)]
        /\ ~RedCheck1 /\ ~RedCheck2 /\ RedCheck3 =>
               option_tl = [color |-> "red",
                            tooltip |-> LowLiquidityTooltip(row.openInterest,
                                                            row.volume)]
        /\ ~RedCheck1 /\ ~RedCheck2 /\ ~RedCheck3 /\ RedCheck4 =>
               option_tl = [color |-> "red", tooltip |-> HighRiskTooltip]

\* C1 witness: a contract whose return is below target and whose delta is
\* outside the band too, with a dead market and both regimes red, is red for
\* its return.
C1_Witness ==
    /\ pc = "classified"
    /\ RedCheck1 /\ RedCheck2 /\ RedCheck3 /\ RedCheck4
    /\ option_tl.color = "red"
    /\ option_tl.tooltip = ReturnTooltip(row.ann_return)

\* C2 as stated: green exactly when the five conditions hold.
C2_GreenIffFive ==
    pc = "classified" => (option_tl.color = "green" <=> FiveConditions)

\* C2 amended: green exactly when the five conditions hold and the
\* very-low-liquidity check does not fire (openInterest >= marginal_oi and
\* volume # 0); when marginal_oi <= min_oi and min_volume >= 1 the five
\* conditions alone decide.
C2_GreenIffFiveAndNotDead ==
    pc = "classified" =>
        /\ option_tl.color = "green" <=> (FiveConditions /\ ~RedCheck3)
        /\ (MarginalOi(config) <= MinOi(config) /\ MinVolume(config) >= 1)
               => (option_tl.color = "green" <=> FiveConditions)

\* C2 witness: a green contract.
C2_Witness ==
    /\ pc = "classified"
    /\ FiveConditions
    /\ option_tl.color = "green"

\* the issues of a yellow contract as the claim lists them, "" for an issue
\* that does not apply
IssueLiquidity ==
    IF ~row.liquidity_ok
    THEN MarginalTooltip(row.openInterest, row.volume) ELSE ""
IssueVix ==
    IF vix_color = "yellow" THEN VixYellowIssue
    ELSE IF vix_color = "red" THEN VixRedIssue ELSE ""
IssueIndex ==
    IF index_color \in {"yellow", "red"} THEN IndexIssue(index_color) ELSE ""
JoinTwo(a, b) ==
    IF a = "" THEN b ELSE IF b = "" THEN a ELSE a \o "; " \o b

\* C3: the tooltip of a yellow contract is the "; "-joined list, in this
\* order, of the issues that apply: marginal liquidity, VIX in yellow or red
\* zone, index technical yellow or red; it is "Near threshold" exactly when
\* none applies, and never empty.
C3_YellowTooltip ==
    (pc = "classified" /\ option_tl.color = "yellow") =>
        LET listed == JoinTwo(JoinTwo(IssueLiquidity, IssueVix), IssueIndex)
        IN  /\ listed # "" => option_tl.tooltip = listed
            /\ option_tl.tooltip = NearThreshold <=> listed = ""
            /\ option_tl.tooltip # ""

\* C3 witness: a yellow contract with all three issues.
C3_Witness ==
    /\ pc = "classified"
    /\ option_tl.color = "yellow"
    /\ ~row.liquidity_ok /\ vix_color = "red" /\ index_color = "yellow"
    /\ option_tl.tooltip =
           MarginalTooltip(row.openInterest, row.volume)
           \o "; VIX in red zone; Index technical is yellow"

-----------------------------------------------------------------------------
(* Specification SpecVix: the VIX card of refresh_dashboard.               *)

\* largest VIX level drawn
MaxVix == 40

VixLevels == 0..MaxVix

\* vix_regime sections of config.yaml: the shipped defaults written out, a
\* section that sets only the band, one that sets only the red threshold,
\* one whose red threshold lies inside the band, one whose band is inverted
VixRegimeChoices ==
    { [green |-> <<18, 28>>, red |-> 35],
      [green |-> <<20, 30>>],
      [red |-> 30],
      [green |-> <<18, 28>>, red |-> 25],
      [green |-> <<28, 18>>, red |-> 35] }

VixConfigs == {EmptyDict} \cup { "vix_regime" :> v : v \in VixRegimeChoices }

InitVix ==
    /\ pc = "quote"
    /\ config \in VixConfigs
    /\ vix_level \in VixLevels
    /\ vix_tl = NoLight
    /\ IdleOpt /\ IdleTechForOpt /\ IdleRsi /\ IdleFn

\* vix_tl = vix_traffic_light(vix_level, config)
VixTrafficLight ==
    /\ pc = "quote"
    /\ vix_tl' = vix_traffic_light(vix_level, config)
    /\ pc' = "lit"
    /\ UNCHANGED <<fnVars, config, vix_level, optVars, techVars, rsiVars>>

NextVix == VixTrafficLight

SpecVix == InitVix /\ [][NextVix]_vars

VixLow  == VixGreenRange(config)[1]
VixHigh == VixGreenRange(config)[2]
VixRed  == VixRedThreshold(config)
VixInBand == VixLow <= vix_level /\ vix_level <= VixHigh

\* C4 as stated: green if low <= level <= high, red if level >= red
\* threshold, otherwise yellow with the low-volatility label when
\* level < low and the elevated-risk label when level lies between high and
\* the red threshold.
C4_Unordered ==
    pc = "lit" =>
        /\ VixInBand => vix_tl.color = "green"
        /\ vix_level >= VixRed => vix_tl.color = "red"
        /\ (~VixInBand /\ vix_level < VixRed) =>
               /\ vix_tl.color = "yellow"
               /\ vix_level < VixLow => vix_tl.label = VixLowLabel
               /\ vix_level > VixHigh => vix_tl.label = VixElevLabel
        /\ vix_tl.color \in Colors

\* C4 amended: the checks apply in order, first match wins: green if
\* low <= level <= high; otherwise red if level >= red threshold; otherwise
\* yellow, with the low-volatility label when level < low and the
\* elevated-risk label when level >= low.  For a configuration with
\* low <= high < red threshold this is the claim as stated.
C4_Ordered ==
    pc = "lit" =>
        /\ VixInBand =>
               vix_tl = [color |-> "green", label |-> VixGreenLabel]
        /\ (~VixInBand /\ vix_level >= VixRed) =>
               vix_tl = [color |-> "red", label |-> VixRedLabel]
        /\ (~VixInBand /\ vix_level < VixRed /\ vix_level < VixLow) =>
               vix_tl = [color |-> "yellow", label |-> VixLowLabel]
        /\ (~VixInBand /\ vix_level < VixRed /\ vix_level >= VixLow) =>
               vix_tl = [color |-> "yellow", label |-> VixElevLabel]
        /\ (VixLow <= VixHigh /\ VixHigh < VixRed) =>
               /\ vix_level >= VixRed => vix_tl.color = "red"
               /\ (vix_tl.color = "yellow" /\ vix_level > VixHigh) =>
                      vix_tl.label = VixElevLabel

\* C4 witness: the level at the upper end of the band is green although the
\* red threshold lies below it.
C4_Witness ==
    /\ pc = "lit"
    /\ vix_level = VixHigh
    /\ vix_level >= VixRed
    /\ vix_tl.color = "green"

-----------------------------------------------------------------------------
(* Specification SpecTech: one index card of refresh_dashboard.  The       *)
(* daily closes of the proxy go through get_index_technicals and the       *)
(* snapshot through index_traffic_light.                                    *)
(*                                                                         *)
(* A history is a run of equal closes, a few closes that move, and a run   *)
(* of closes equal to the last one.  The runs carry the history past the   *)
(* 14, 20, 50 and 100 bars the indicators need; they leave the ratio of    *)
(* the two smoothed averages where the moving closes put it, so the RSI is *)
(* computed exactly.                                                       *)

MaxTail == 3

TailCloses == {1, 2, 3}
PrefixLens == {0, 12, 18, 48, 98}
SuffixLens == {0, 20, 50, 100}

Flat(n, v) == [i \in 1..n |-> v]

\* <<level of the leading run, closes that move>>
SeqsUpTo(S, n) == UNION { [1..k -> S] : k \in 0..n }
Shapes ==
    { <<2, t>> : t \in SeqsUpTo(TailCloses, MaxTail) }
    \cup { <<7, <<1, 14>> >>, <<8, <<14, 1>> >>,
           <<12, <<40, 1>> >>, <<29, <<1, 40>> >> }

History(n0, sh, m) ==
    LET t == sh[2]
        last == IF t = <<>> THEN sh[1] ELSE t[Len(t)]
    IN  Flat(n0, sh[1]) \o t \o Flat(m, last)

Histories ==
    { History(n0, sh, m) : n0 \in PrefixLens, sh \in Shapes, m \in SuffixLens }

Strategies == {"short_calls", "cash_secured_puts"}

\* config.yaml without an rsi_thresholds section, with the defaults written
\* out, and with a narrower neutral band
TechConfigs ==
    { EmptyDict,
      "rsi_thresholds" :> [overbought |-> 70, oversold |-> 30,
                           neutral_low |-> 40, neutral_high |-> 60],
      "rsi_thresholds" :> [neutral_low |-> 45, neutral_high |-> 55] }

InitTech ==
    /\ pc = "history"
    /\ config \in TechConfigs
    /\ closes \in Histories
    /\ strategy \in Strategies
    /\ technicals = EmptyDict
    /\ index_tl = NoLight
    /\ IdleVix /\ IdleOpt /\ IdleRsi /\ IdleFn

\* sp_technicals = get_index_technicals(sp_hist)
GetIndexTechnicals ==
    /\ pc = "history"
    /\ technicals' = get_index_technicals(closes)
    /\ pc' = "snapshot"
    /\ UNCHANGED <<fnVars, config, closes, strategy, index_tl, vixVars, optVars, rsiVars>>

\* sp_tl = index_traffic_light(sp_technicals, strategy, config)
IndexTrafficLight ==
    /\ pc = "snapshot"
    /\ index_tl' = index_traffic_light(technicals, strategy, config)
    /\ pc' = "lit"
    /\ UNCHANGED <<fnVars, config, closes, strategy, technicals, vixVars, optVars, rsiVars>>

NextTech == GetIndexTechnicals \/ IndexTrafficLight

SpecTech == InitTech /\ [][NextTech]_vars

-----------------------------------------------------------------------------
(* Claims about index_traffic_light, read on the fields of the snapshot    *)

T == technicals

RsiAtLeastHigh == T.rsi14 >= 100 * NeutralHigh(config)
AboveAllThree == T.above_sma20 /\ T.above_sma50 /\ T.above_sma100
WeakeningSmas == 0 < T.sma20 /\ T.sma20 < T.sma50

ColorIs(green, red) ==
    /\ index_tl.color = "green" <=> green
    /\ index_tl.color = "red" <=> red
    /\ index_tl.color = "yellow" <=> (~green /\ ~red)

\* C5 as stated: with strategy short_calls the light is green exactly when
\* ((price is below SMA20 and below SMA50) or 0 < SMA20 < SMA50) and
\* RSI >= neutral_high, red exactly when price is above all three SMAs and
\* RSI < neutral_high, yellow otherwise, and the label is never empty.
C5_BelowBoth ==
    (pc = "lit" /\ strategy = "short_calls") =>
        /\ ColorIs(((T.below_sma20 /\ T.below_sma50) \/ WeakeningSmas)
                       /\ RsiAtLeastHigh,
                   AboveAllThree /\ ~RsiAtLeastHigh)
        /\ index_tl.label # ""

\* C5 amended: the same with "price is not above SMA20 and not above SMA50"
\* (at or below, which includes a snapshot without data) in the place of
\* "below SMA20 and below SMA50".
C5_NotAboveBoth ==
    (pc = "lit" /\ strategy = "short_calls") =>
        /\ ColorIs(((~T.above_sma20 /\ ~T.above_sma50) \/ WeakeningSmas)
                       /\ RsiAtLeastHigh,
                   AboveAllThree /\ ~RsiAtLeastHigh)
        /\ index_tl.label # ""

\* a rally that has gone flat: price equal to SMA20 and SMA50, RSI high
C5_Witness ==
    /\ pc = "lit" /\ strategy = "short_calls"
    /\ index_tl.color = "green"
    /\ ~T.above_sma20 /\ ~T.below_sma20 /\ ~T.above_sma50 /\ ~T.below_sma50
    /\ Len(closes) >= 50
    /\ ~WeakeningSmas

\* C6 as stated: with strategy cash_secured_puts the light is green exactly
\* when price is above all three SMAs and RSI <= neutral_low, red exactly
\* when price is below both SMA50 and SMA100 and RSI < neutral_low, yellow
\* otherwise, and the green and the red condition never hold together.
C6_BelowBoth ==
    (pc = "lit" /\ strategy = "cash_secured_puts") =>
        LET green == AboveAllThree /\ T.rsi14 <= 100 * NeutralLow(config)
            red == /\ T.below_sma50 /\ T.below_sma100
                   /\ T.rsi14 < 100 * NeutralLow(config)
        IN  ColorIs(green, red) /\ ~(green /\ red)

\* C6 amended: the same with "price is not above SMA50 and not above SMA100"
\* in the place of "below both SMA50 and SMA100".
C6_NotAboveBoth ==
    (pc = "lit" /\ strategy = "cash_secured_puts") =>
        LET green == AboveAllThree /\ T.rsi14 <= 100 * NeutralLow(config)
            red == /\ ~T.above_sma50 /\ ~T.above_sma100
                   /\ T.rsi14 < 100 * NeutralLow(config)
        IN  ColorIs(green, red) /\ ~(green /\ red)

\* a fall that has gone flat: price equal to SMA50 and SMA100, RSI low
C6_Witness ==
    /\ pc = "lit" /\ strategy = "cash_secured_puts"
    /\ index_tl.color = "red"
    /\ ~T.above_sma50 /\ ~T.below_sma50 /\ ~T.above_sma100 /\ ~T.below_sma100
    /\ Len(closes) >= 100

-----------------------------------------------------------------------------
(* Claims about get_index_technicals *)

\* C7 as stated: a non-empty history with fewer than N closes, N in
\* {20, 50, 100}, gets smaN = 0 and both above_smaN and below_smaN False.
C7_UndefinedSmaFlagsFalse ==
    (pc # "history" /\ closes # <<>>) =>
        /\ Len(closes) < 20 =>
               T.sma20 = 0 /\ ~T.above_sma20 /\ ~T.below_sma20
        /\ Len(closes) < 50 =>
               T.sma50 = 0 /\ ~T.above_sma50 /\ ~T.below_sma50
        /\ Len(closes) < 100 =>
               T.sma100 = 0 /\ ~T.above_sma100 /\ ~T.below_sma100

\* C8 as stated: an empty history, and any history with fewer than the 14
\* closes RSI(14) needs, gets the default snapshot (price 0, rsi14 50 with
\* label N/A, all six flags False).
C8_ShortHistoryDefault ==
    (pc # "history" /\ Len(closes) < 14) =>
        /\ T.price = 0 /\ T.rsi14 = 5000 /\ T.rsi_label = "N/A"
        /\ ~T.above_sma20 /\ ~T.above_sma50 /\ ~T.above_sma100
        /\ ~T.below_sma20 /\ ~T.below_sma50 /\ ~T.below_sma100

RsiLabels == {"Overbought", "Oversold", "Neutral", "Bullish", "Bearish"}

\* the range the claim gives a label, for the fraction r
InRange(l, r) ==
    CASE l = "Overbought" -> r.num >= 70 * r.den
      [] l = "Oversold"   -> r.num <= 30 * r.den
      [] l = "Neutral"    -> 40 * r.den <= r.num /\ r.num <= 60 * r.den
      [] l = "Bullish"    -> 60 * r.den < r.num /\ r.num < 70 * r.den
      [] l = "Bearish"    -> 30 * r.den < r.num /\ r.num < 40 * r.den

\* C9: the RSI computed from a non-empty history lies in [0, 100] and in
\* exactly one of the five ranges, and rsi_label is the label of that range
\* (Overbought >= 70, Oversold <= 30, Neutral 40..60, Bullish (60, 70),
\* Bearish (30, 40)).  The RSI is the value the labels are computed from,
\* before it is rounded for display.
C9_RsiLabelRanges ==
    (pc # "history" /\ closes # <<>>) =>
        LET r == latest_rsi(closes)
        IN  /\ 0 <= r.num /\ r.num <= 100 * r.den
            /\ \A l \in RsiLabels : (T.rsi_label = l) <=> InRange(l, r)

\* an RSI of exactly 70 is Overbought
C9_Witness ==
    /\ pc # "history" /\ Len(closes) >= 14
    /\ latest_rsi(closes).num = 70 * latest_rsi(closes).den
    /\ T.rsi14 = 7000
    /\ T.rsi_label = "Overbought"

-----------------------------------------------------------------------------
(* Specification SpecRsi: compute_rsi on a close series with a look-back   *)
(* period, and the snapshot get_index_technicals builds from the same      *)
(* closes.  Short series of any shape run with periods 2 and 3; the        *)
(* histories with runs of equal closes run with the period 14 of           *)
(* get_index_technicals.                                                    *)

MaxLen == 5

RsiCloses == {1, 2, 3, 4}
ShortPeriods == {2, 3}

RsiHistories ==
    { History(n0, sh, m) : n0 \in {0, 12, 13}, sh \in Shapes, m \in {0, 1, 14} }

RsiInputs ==
    (SeqsUpTo(RsiCloses, MaxLen) \X ShortPeriods) \cup (RsiHistories \X {14})

InitRsi ==
    /\ pc = "prices"
    /\ config = EmptyDict
    /\ \E in \in RsiInputs : prices = in[1] /\ period = in[2]
    /\ rsi_series = <<>>
    /\ closes = prices
    /\ strategy = "short_calls"
    /\ technicals = EmptyDict
    /\ index_tl = NoLight
    /\ IdleVix /\ IdleOpt /\ IdleFn

\* rsi = compute_rsi(closes, period)
ComputeRsi ==
    /\ pc = "prices"
    /\ rsi_series' = compute_rsi(prices, period)
    /\ pc' = "history"
    /\ UNCHANGED <<fnVars, config, prices, period, techVars, vixVars, optVars>>

NextRsi == ComputeRsi \/ GetIndexTechnicals

SpecRsi == InitRsi /\ [][NextRsi]_vars

\* no close up to bar i is lower than the close before it: every loss
\* observation, and so the smoothed average loss, is 0
NoLossUpTo(i) == \A j \in 2..i : prices[j] >= prices[j - 1]
\* some close up to bar i is higher than the close before it: the smoothed
\* average gain is positive
SomeGainUpTo(i) == \E j \in 2..i : prices[j] > prices[j - 1]

StrictlyIncreasing == \A j \in 2..Len(prices) : prices[j] > prices[j - 1]
StrictlyDecreasing == \A j \in 2..Len(prices) : prices[j] < prices[j - 1]

IsValue(x, v) == x.k = "num" /\ x.num = v * x.den

\* C10 as stated: at every bar with at least period observations and a
\* smoothed average loss of 0 the RSI is 100, and so is the rsi14 of the
\* snapshot; a strictly increasing series ends at 100 and a strictly
\* decreasing one at 0.
C10_ZeroLossIs100 ==
    LET n == Len(prices)
    IN  pc # "prices" =>
        /\ \A i \in period..n : NoLossUpTo(i) => IsValue(rsi_series[i], 100)
        /\ (pc = "snapshot" /\ period = 14 /\ n >= 14 /\ NoLossUpTo(n))
               => T.rsi14 = 10000
        /\ (n >= period /\ StrictlyIncreasing) => IsValue(rsi_series[n], 100)
        /\ (n >= period /\ StrictlyDecreasing) => IsValue(rsi_series[n], 0)

\* C10 amended: every bar gets NaN or a value in [0, 100] (no division
\* fails); at every bar with at least period observations, a smoothed
\* average loss of 0 and a positive smoothed average gain the RSI is 100, and
\* so is the rsi14 of the snapshot; where both averages are 0 (no close has
\* changed) the RSI is NaN and the snapshot reports rsi14 = 50; a strictly
\* increasing series ends at 100 and a strictly decreasing one at 0.
C10_ZeroLossPositiveGainIs100 ==
    LET n == Len(prices)
    IN  pc # "prices" =>
        /\ DOMAIN rsi_series = 1..n
        /\ \A i \in 1..n :
               \/ rsi_series[i].k = "nan"
               \/ /\ rsi_series[i].k = "num"
                  /\ 0 <= rsi_series[i].num
                  /\ rsi_series[i].num <= 100 * rsi_series[i].den
        /\ \A i \in period..n :
               /\ (NoLossUpTo(i) /\ SomeGainUpTo(i))
                      => IsValue(rsi_series[i], 100)
               /\ (NoLossUpTo(i) /\ ~SomeGainUpTo(i))
                      => rsi_series[i].k = "nan"
        /\ (pc = "snapshot" /\ period = 14 /\ n >= 14 /\ NoLossUpTo(n))
               => T.rsi14 = (IF SomeGainUpTo(n) THEN 10000 ELSE 5000)
        /\ (n >= period /\ StrictlyIncreasing) => IsValue(rsi_series[n], 100)
        /\ (n >= period /\ StrictlyDecreasing) => IsValue(rsi_series[n], 0)

\* fourteen or more closes that rise and never fall: RSI 100 at the last
\* bar and in the snapshot
C10_Witness ==
    /\ pc = "snapshot" /\ period = 14 /\ Len(prices) >= 14
    /\ NoLossUpTo(Len(prices)) /\ SomeGainUpTo(Len(prices))
    /\ IsValue(rsi_series[Len(prices)], 100)
    /\ T.rsi14 = 10000

-----------------------------------------------------------------------------
(* Specification SpecRet: annualized_return on its own, with inputs on     *)
(* both sides of zero.  premium is in ten-thousandths (a mid-price rounded *)
(* to four decimals), underlying_price in cents, dte in days.              *)

RetPremiums == {-12000, 0, 1, 300, 12000, 14000}
RetPrices   == {-2400, 0, 1, 100, 2400, 5000}
RetDtes     == {-7, 0, 1, 7, 30, 365}

InitRet ==
    /\ pc = "args"
    /\ config = EmptyDict
    /\ ar_args \in [premium : RetPremiums, underlying_price : RetPrices,
                    dte : RetDtes]
    /\ ar_result = 0
    /\ IdleNotRet

AnnualizedReturn ==
    /\ pc = "args"
    /\ ar_result' = annualized_return(ar_args.premium, ar_args.underlying_price,
                                      ar_args.dte)
    /\ pc' = "returned"
    /\ UNCHANGED <<config, ar_args, notRetVars>>

NextRet == AnnualizedReturn

SpecRet == InitRet /\ [][NextRet]_vars

\* v (hundredths of a percent) is premium/price * 365/dte * 100 rounded to two
\* decimals: no other multiple of 0.01 is nearer to the exact value
\* premium * 36500 / (price * dte)
NearestHundredth(v, premium, price, dte) ==
    LET exact_num == premium * 36500
        den == price * dte
        dist == IF v * den >= exact_num THEN v * den - exact_num
                ELSE exact_num - v * den
    IN  2 * dist <= den

\* C11: annualized_return is 0.0 when any input is <= 0, is
\* round(premium/price * 365/dte * 100, 2) when all are positive (1.20 on
\* 24.00 over 7 days gives 260.71), and is never negative.
C11_AnnualizedReturn ==
    pc = "returned" =>
        LET a == ar_args
        IN  /\ (a.premium <= 0 \/ a.underlying_price <= 0 \/ a.dte <= 0)
                   => ar_result = 0
            /\ (a.premium > 0 /\ a.underlying_price > 0 /\ a.dte > 0)
                   => NearestHundredth(ar_result, a.premium,
                                       a.underlying_price, a.dte)
            /\ (a.premium = 12000 /\ a.underlying_price = 2400 /\ a.dte = 7)
                   => ar_result = 26071
            /\ ar_result >= 0

\* the worked example: premium 1.20, price 24.00, 7 days
C11_Witness ==
    /\ pc = "returned"
    /\ ar_args = [premium |-> 12000, underlying_price |-> 2400, dte |-> 7]
    /\ ar_result = 26071

-----------------------------------------------------------------------------
(* options_analytics.compute_payoff_table.  strike and underlying_price    *)
(* are in cents, premium in ten-thousandths (a mid-price); the unrounded   *)
(* prices and P/L are fractions of ten-thousandths, the columns of the     *)
(* table and the breakeven are in cents, as np.round(x, 2) leaves them.    *)

\* round(num/den) to the nearest integer, ties to even, for either sign
RoundSigned(num, den) ==
    IF num >= 0 THEN RoundHalfEven(num, den) ELSE -RoundHalfEven(-num, den)

\* np.linspace(0.70 * S, 1.30 * S, n)[i], i from 0, as num/den
\* ten-thousandths: 0.70 S + i * 0.60 S / (n - 1); a single point is 0.70 S
LinspaceNum(S, n, i) == IF n = 1 THEN 700 * S ELSE 100 * S * (7 * (n - 1) + 6 * i)
LinspaceDen(n) == IF n = 1 THEN 10 ELSE 10 * (n - 1)

\* max(0, x)
Max0(x) == IF x > 0 THEN x ELSE 0

\* premium - intrinsic at the point num/den, times den
PnlNum(option_type, strike, premium, num, den) ==
    IF option_type = "call"
    THEN premium * den - Max0(num - 100 * strike * den)
    ELSE premium * den - Max0(100 * strike * den - num)

\* mutant: the breakeven of a call is taken below the strike
compute_payoff_table_breakeven_below(option_type, strike, premium, S, n) ==
    [rows |->
        [k \in 1..n |->
            LET num == LinspaceNum(S, n, k - 1)
                den == LinspaceDen(n)
            IN  [underlying_at_expiry |-> RoundSigned(num, 100 * den),
                 pnl |-> RoundSigned(PnlNum(option_type, strike, premium,
                                            num, den), 100 * den)]],
     breakeven |-> RoundSigned(100 * strike - premium, 100)]

compute_payoff_table(option_type, strike, premium, S, n) ==
    [rows |->
        [k \in 1..n |->
            LET num == LinspaceNum(S, n, k - 1)
                den == LinspaceDen(n)
            IN  [underlying_at_expiry |-> RoundSigned(num, 100 * den),
                 pnl |-> RoundSigned(PnlNum(option_type, strike, premium,
                                            num, den), 100 * den)]],
     breakeven |-> IF option_type = "call"
                   THEN RoundSigned(100 * strike + premium, 100)
                   ELSE RoundSigned(100 * strike - premium, 100)]

-----------------------------------------------------------------------------
(* Specification SpecPayoff: compute_payoff_table on its own.  The         *)
(* callback on_option_selected calls it with 50 points; 37 points on a     *)
(* price of 24.00 put the prices 20.00 and 30.00 of the worked example in  *)
(* the table.                                                               *)

PayoffStrikes  == {1500, 2500, 3500}
PayoffPremiums == {10000, 12150}
PayoffPrices   == {5, 2400}
PayoffPoints   == {1, 2, 37, 50}

InitPayoff ==
    /\ pc = "args"
    /\ config = EmptyDict
    /\ payoff_args \in [option_type : {"call", "put"}, strike : PayoffStrikes,
                        premium : PayoffPremiums,
                        underlying_price : PayoffPrices,
                        num_points : PayoffPoints]
    /\ payoff_result = EmptyDict
    /\ IdleNotPayoff

ComputePayoffTable ==
    /\ pc = "args"
    /\ payoff_result' = compute_payoff_table(payoff_args.option_type,
                            payoff_args.strike, payoff_args.premium,
                            payoff_args.underlying_price, payoff_args.num_points)
    /\ pc' = "returned"
    /\ UNCHANGED <<config, payoff_args, notPayoffVars>>

NextPayoff == ComputePayoffTable

SpecPayoff == InitPayoff /\ [][NextPayoff]_vars

PA == payoff_args
PR == payoff_result

\* v is num/den rounded to the nearest integer (either neighbour on a tie)
Nearest(v, num, den) ==
    LET dist == IF v * den >= num THEN v * den - num ELSE num - v * den
    IN  2 * dist <= den

\* the pnl the claim gives at the price p, p in cents, in ten-thousandths
ClaimedPnl(p) ==
    IF PA.option_type = "call"
    THEN PA.premium - Max0(100 * p - 100 * PA.strike)
    ELSE PA.premium - Max0(100 * PA.strike - 100 * p)

\* strike + premium for a call, strike - premium for a put, in ten-thousandths
ClaimedBreakeven ==
    IF PA.option_type = "call" THEN 100 * PA.strike + PA.premium
    ELSE 100 * PA.strike - PA.premium

\* the worked example: short call, strike 25, premium 1.00, underlying 24
PayoffExample ==
    /\ PA.option_type = "call" /\ PA.strike = 2500 /\ PA.premium = 10000
    /\ PA.underlying_price = 2400

ExampleHolds ==
    /\ PR.breakeven = 2600
    /\ \A k \in DOMAIN PR.rows :
           /\ PR.rows[k].underlying_at_expiry = 3000 => PR.rows[k].pnl = -400
           /\ PR.rows[k].underlying_at_expiry = 2000 => PR.rows[k].pnl = 100

\* C12 as stated: num_points rows ascending evenly from 0.70 S to 1.30 S; at
\* every price the pnl is premium - max(0, p - strike) (call) or
\* premium - max(0, strike - p) (put) and never exceeds the premium; the
\* breakeven is strike + premium (call) or strike - premium (put).
C12_PayoffExact ==
    pc = "returned" =>
        LET n == PA.num_points
            rows == PR.rows
        IN  /\ DOMAIN rows = 1..n
            /\ 10 * rows[1].underlying_at_expiry = 7 * PA.underlying_price
            /\ 10 * rows[n].underlying_at_expiry = 13 * PA.underlying_price
            /\ \A k \in 1..n :
                   /\ 100 * rows[k].pnl = ClaimedPnl(rows[k].underlying_at_expiry)
                   /\ 100 * rows[k].pnl <= PA.premium
            /\ 100 * PR.breakeven = ClaimedBreakeven
            /\ PayoffExample => ExampleHolds

\* C12 amended: num_points rows whose prices are the evenly spaced points
\* from 0.70 S to 1.30 S (the single point 0.70 S when num_points is 1)
\* rounded to two decimals; the pnl is premium - max(0, p - strike) (call) or
\* premium - max(0, strike - p) (put) at the point p before rounding, rounded
\* to two decimals, so it never exceeds the premium rounded to two decimals;
\* the breakeven is strike + premium (call) or strike - premium (put) rounded
\* to two decimals.
C12_PayoffRounded ==
    pc = "returned" =>
        LET n == PA.num_points
            rows == PR.rows
            S == PA.underlying_price
            \* the k-th point in cents is pnum(k) / pden
            pden == IF n = 1 THEN 10 ELSE 10 * (n - 1)
            pnum(k) == IF n = 1 THEN 7 * S
                       ELSE S * (7 * (n - 1) + 6 * (k - 1))
            \* premium - intrinsic at that point, in ten-thousandths times pden
            exact_pnl(k) ==
                IF PA.option_type = "call"
                THEN PA.premium * pden - Max0(100 * pnum(k) - 100 * PA.strike * pden)
                ELSE PA.premium * pden - Max0(100 * PA.strike * pden - 100 * pnum(k))
        IN  /\ DOMAIN rows = 1..n
            /\ \A k \in 1..n :
                   /\ Nearest(rows[k].underlying_at_expiry, pnum(k), pden)
                   /\ Nearest(rows[k].pnl, exact_pnl(k), 100 * pden)
                   /\ 100 * rows[k].pnl <= PA.premium + 50
                   /\ k > 1 => rows[k].underlying_at_expiry
                                   >= rows[k - 1].underlying_at_expiry
            /\ Nearest(PR.breakeven, ClaimedBreakeven, 100)
            /\ PayoffExample => ExampleHolds

\* the worked example with both of its prices in the table
C12_Witness ==
    /\ pc = "returned" /\ PayoffExample /\ PA.num_points = 37
    /\ PR.breakeven = 2600
    /\ \E k \in DOMAIN PR.rows :
           PR.rows[k].underlying_at_expiry = 3000 /\ PR.rows[k].pnl = -400
    /\ \E k \in DOMAIN PR.rows :
           PR.rows[k].underlying_at_expiry = 2000 /\ PR.rows[k].pnl = 100

-----------------------------------------------------------------------------
(* Specification SpecChain: enrich_chain on a whole chain, and once more   *)
(* on its own result.  A chain has the delta column on every row or on     *)
(* none.                                                                    *)

MaxRows == 2

RowsWithDelta ==
    { [type |-> "call", bid |-> 100, ask |-> 140, dte |-> 7,
       openInterest |-> 200, volume |-> 20, delta |-> Num(25)],
      [type |-> "put", bid |-> 100, ask |-> 140, dte |-> 7,
       openInterest |-> 60, volume |-> 0, delta |-> Num(-51)],
      [type |-> "call", bid |-> 2, ask |-> 4, dte |-> 30,
       openInterest |-> 0, volume |-> 1, delta |-> NaN] }

RowsWithoutDelta ==
    { [type |-> "put", bid |-> 20, ask |-> 40, dte |-> 365,
       openInterest |-> 49, volume |-> 20],
      [type |-> "call", bid |-> 121, ask |-> 122, dte |-> 7,
       openInterest |-> 200, volume |-> 19] }

Chains == SeqsUpTo(RowsWithDelta, MaxRows) \cup SeqsUpTo(RowsWithoutDelta, MaxRows)

InitChain ==
    /\ pc = "chain"
    /\ config \in OptionConfigs
    /\ chain_input \in Chains
    /\ frames = (1 :> chain_input)
    /\ chain_df = 1
    /\ etf_price \in UnderlyingPrices
    /\ enriched = 0
    /\ enriched_twice = 0
    /\ IdleNotChain

\* enriched = enrich_chain(chain_df, underlying_prices.get(etf, 0), config)
EnrichChainOnce ==
    /\ pc = "chain"
    /\ LET r == enrich_chain(frames, chain_df, etf_price, config)
       IN  frames' = r.frames /\ enriched' = r.result
    /\ pc' = "enriched"
    /\ UNCHANGED <<config, chain_df, chain_input, etf_price, enriched_twice,
                   notChainVars>>

\* enrich_chain(enriched, underlying_prices.get(etf, 0), config)
EnrichChainAgain ==
    /\ pc = "enriched"
    /\ LET r == enrich_chain(frames, enriched, etf_price, config)
       IN  frames' = r.frames /\ enriched_twice' = r.result
    /\ pc' = "enriched twice"
    /\ UNCHANGED <<config, chain_df, chain_input, etf_price, enriched,
                   notChainVars>>

NextChain == EnrichChainOnce \/ EnrichChainAgain

SpecChain == InitChain /\ [][NextChain]_vars

\* C13: the chain passed in holds the same rows, columns and values after
\* each call as before it, and enriching the result again gives a frame equal
\* to the result in every column and flag.
C13_IdempotentNoMutation ==
    /\ frames[chain_df] = chain_input
    /\ pc = "enriched twice" =>
           /\ frames[enriched_twice] = frames[enriched]
           /\ frames[enriched] = EnrichRows(chain_input, etf_price, config)

\* two rows enriched twice: the result is a new object with the added
\* columns, and the second result equals it
C13_Witness ==
    /\ pc = "enriched twice" /\ Len(chain_input) = 2
    /\ enriched # chain_df /\ enriched_twice # enriched
    /\ frames[enriched] # chain_input
    /\ "liquidity_marginal" \in DOMAIN frames[enriched][1]
    /\ frames[enriched_twice] = frames[enriched]

-----------------------------------------------------------------------------
(* Claims about the flags of enrich_chain, under Spec: chain_row is the    *)
(* provider row, row the enriched one.                                     *)

C15_MarginalNotDead ==
    (pc = "classified" /\ row.liquidity_marginal) =>
        /\ ~row.liquidity_ok
        /\ row.openInterest >= MarginalOi(config)
        /\ row.volume > 0
        /\ ~(/\ option_tl.color = "red"
             /\ option_tl.tooltip
                    = LowLiquidityTooltip(row.openInterest, row.volume))

DeltaPresent(r) == "delta" \in DOMAIN r /\ ~r.delta.nan

InBand(v, band) == band[1] <= v /\ v <= band[2]

\* C16: a contract whose delta is missing or NaN gets delta_ok and
\* delta_in_focus False; a present delta gets delta_ok exactly when it lies
\* in the inclusive band of the contract's type (short_calls for calls,
\* short_puts for puts) and delta_in_focus exactly when it lies in the focus
\* band of that type.
C16_DeltaFlags ==
    pc # "row" =>
        IF ~DeltaPresent(chain_row)
        THEN ~row.delta_ok /\ ~row.delta_in_focus
        ELSE LET v == chain_row.delta.v
                 call == chain_row.type = "call"
             IN  /\ row.delta_ok <=>
                        InBand(v, IF call THEN CallBand(config)
                                  ELSE PutBand(config))
                 /\ row.delta_in_focus <=>
                        InBand(v, IF call THEN CallFocus(config)
                                  ELSE PutFocus(config))

\* a NaN delta that fails both checks, in a classified state
C16_Witness ==
    /\ pc = "classified"
    /\ "delta" \in DOMAIN chain_row /\ chain_row.delta.nan
    /\ ~row.delta_ok /\ ~row.delta_in_focus

-----------------------------------------------------------------------------
(* traffic_lights.selected_option_color.  ann_return is in hundredths of a *)
(* percent, as enrich_chain leaves it in the table.                        *)

SelGreenLabel  == "Meets all targets"
SelRedLabel    == "Below minimum thresholds"
SelYellowLabel == "Near threshold - review carefully"

\* mutant: the red floor is the configured target
selected_option_color_target_floor(ann_return, oi, volume, cfg) ==
    LET target == ReturnTarget(cfg)
        liquidity_ok == oi >= MinOi(cfg) /\ volume >= MinVolume(cfg)
        liquidity_poor == oi < MarginalOi(cfg) \/ volume = 0
    IN  IF ann_return >= 100 * target /\ liquidity_ok
        THEN [color |-> "green", label |-> SelGreenLabel]
        ELSE IF ann_return < 100 * target \/ liquidity_poor
        THEN [color |-> "red", label |-> SelRedLabel]
        ELSE [color |-> "yellow", label |-> SelYellowLabel]

selected_option_color(ann_return, oi, volume, cfg) ==
    LET target == ReturnTarget(cfg)
        liquidity_ok == oi >= MinOi(cfg) /\ volume >= MinVolume(cfg)
        liquidity_poor == oi < MarginalOi(cfg) \/ volume = 0
    IN  IF ann_return >= 100 * target /\ liquidity_ok
        THEN [color |-> "green", label |-> SelGreenLabel]
        ELSE IF ann_return < 2000 \/ liquidity_poor
        THEN [color |-> "red", label |-> SelRedLabel]
        ELSE [color |-> "yellow", label |-> SelYellowLabel]

-----------------------------------------------------------------------------
(* Specification SpecSel: selected_option_color on the row a user selects  *)

SelReturns == {0, 1500, 1999, 2000, 2999, 3000, 26071}
SelOpenInterests == {0, 49, 50, 199, 200}
SelVolumes == {0, 1, 19, 20}

\* the configurations of Spec, and one with a target below the floor of 20
SelConfigs == OptionConfigs \cup { "annualized_return_target" :> 10 }

InitSel ==
    /\ pc = "args"
    /\ config \in SelConfigs
    /\ sel_args \in [ann_return : SelReturns, oi : SelOpenInterests,
                     volume : SelVolumes]
    /\ sel_result = NoLight
    /\ IdleNotSel

SelectedOptionColor ==
    /\ pc = "args"
    /\ sel_result' = selected_option_color(sel_args.ann_return, sel_args.oi,
                                           sel_args.volume, config)
    /\ pc' = "returned"
    /\ UNCHANGED <<config, sel_args, notSelVars>>

NextSel == SelectedOptionColor

SpecSel == InitSel /\ [][NextSel]_vars

SelGreenCond ==
    /\ sel_args.ann_return >= 100 * ReturnTarget(config)
    /\ sel_args.oi >= MinOi(config)
    /\ sel_args.volume >= MinVolume(config)

SelRedCond ==
    \/ sel_args.ann_return < 2000
    \/ sel_args.oi < MarginalOi(config)
    \/ sel_args.volume = 0

-----------------------------------------------------------------------------
(* traffic_lights.etf_status_summary and its call in refresh_dashboard *)

\* what one row adds to the counters of its ETF
Tally(r, vc, ic, cfg) ==
    LET tl == option_traffic_light(r, vc, ic, cfg)
    IN  IF tl.color = "green"
        THEN IF Get(r, "type", "") = "call" THEN "green_calls" ELSE "green_puts"
        ELSE IF tl.color = "yellow" THEN "yellow_count"
        ELSE "none"

\* for _, row in chain_df.iterrows(): the rows 1..n that add to a counter
RECURSIVE CountInFrame(_, _, _, _, _, _)
CountInFrame(rows, n, vc, ic, cfg, counter) ==
    IF n = 0 THEN 0
    ELSE CountInFrame(rows, n - 1, vc, ic, cfg, counter)
         + (IF Tally(rows[n], vc, ic, cfg) = counter THEN 1 ELSE 0)

\* for _exp_key, chain_df in etf_chains.items(): empty frames are skipped
RECURSIVE CountInChains(_, _, _, _, _, _)
CountInChains(etf_chains, keys, vc, ic, cfg, counter) ==
    IF keys = {} THEN 0
    ELSE LET k == CHOOSE x \in keys : TRUE
             chain == etf_chains[k]
         IN  (IF chain = <<>> THEN 0
              ELSE CountInFrame(chain, Len(chain), vc, ic, cfg, counter))
             + CountInChains(etf_chains, keys \ {k}, vc, ic, cfg, counter)

\* the body of the loop over the configured ETFs; prices are in cents, and
\* round(last_price, 2) rounds to cents
EtfStatus(etf, chs, underlying_prices, vc, sc, nc, cfg) ==
    LET etf_chains   == Get(chs, etf, EmptyDict)
        last_price   == Get(underlying_prices, etf, 0)
        idx_color    == IF etf = "SQQQ" THEN nc ELSE sc
        count(c)     == CountInChains(etf_chains, DOMAIN etf_chains,
                                      vc, idx_color, cfg, c)
        green_calls  == count("green_calls")
        green_puts   == count("green_puts")
        yellow_count == count("yellow_count")
        total_green  == green_calls + green_puts
    IN  [symbol       |-> etf,
         last_price   |-> RoundHalfEven(last_price * 100, 100),
         green_calls  |-> green_calls,
         green_puts   |-> green_puts,
         total_green  |-> total_green,
         status_color |-> IF total_green >= 1 THEN "green"
                          ELSE IF yellow_count > 0 THEN "yellow"
                          ELSE "red"]

\* mutant: every ETF is judged by the S&P colour
etf_status_summary_sp_only(chs, underlying_prices, vc, sc, nc, cfg) ==
    LET etfs == Get(cfg, "etfs", <<>>)
    IN  [i \in DOMAIN etfs |->
            EtfStatus(etfs[i], chs, underlying_prices, vc, sc, sc, cfg)]

\* etf_status_summary(chains, underlying_prices, vix_color, sp_color,
\* ndx_color, strategy, config); the function does not read strategy
etf_status_summary(chs, underlying_prices, vc, sc, nc, cfg) ==
    LET etfs == Get(cfg, "etfs", <<>>)
    IN  [i \in DOMAIN etfs |->
            EtfStatus(etfs[i], chs, underlying_prices, vc, sc, nc, cfg)]

\* underlying_prices of refresh_dashboard: the last quote of every
\* configured ETF, 0 where there is none
UnderlyingPricesOf(q, cfg) ==
    LET etfs == Get(cfg, "etfs", <<>>)
    IN  [e \in { etfs[i] : i \in DOMAIN etfs } |-> Get(q, e, 0)]

\* the rows of the frame enrich_chain returns for the rows of a fetched one
EnrichedRows(rows, price, cfg) ==
    LET r == enrich_chain(1 :> rows, 1, price, cfg)
    IN  r.frames[r.result]

\* enriched_chains of refresh_dashboard: every non-empty chain, enriched at
\* the price of its ETF
EnrichChains(chs, underlying_prices, cfg) ==
    [etf \in DOMAIN chs |->
        [k \in { x \in DOMAIN chs[etf] : chs[etf][x] # <<>> } |->
            EnrichedRows(chs[etf][k], Get(underlying_prices, etf, 0), cfg)]]

-----------------------------------------------------------------------------
(* Specification SpecSummary: the ETF status card of refresh_dashboard.    *)

\* provider rows: a call and a put that meet every target at 24.00, a call
\* of marginal liquidity, a call outside the delta band
GoodCall == [type |-> "call", bid |-> 100, ask |-> 140, dte |-> 7,
             openInterest |-> 200, volume |-> 20, delta |-> Num(25)]
GoodPut  == [type |-> "put", bid |-> 100, ask |-> 140, dte |-> 7,
             openInterest |-> 200, volume |-> 20, delta |-> Num(-25)]
ThinCall == [type |-> "call", bid |-> 100, ask |-> 140, dte |-> 7,
             openInterest |-> 50, volume |-> 5, delta |-> Num(25)]
DeepCall == [type |-> "call", bid |-> 100, ask |-> 140, dte |-> 7,
             openInterest |-> 200, volume |-> 20, delta |-> Num(90)]

Exp1 == "2026-01-16"
Exp2 == "2026-02-20"

\* the chains fetched for one ETF
EtfChainChoices ==
    { EmptyDict,
      Exp1 :> <<>>,
      Exp1 :> <<GoodCall>>,
      (Exp1 :> <<GoodCall, GoodPut>>) @@ (Exp2 :> <<GoodCall, ThinCall>>),
      (Exp1 :> <<ThinCall>>) @@ (Exp2 :> <<DeepCall>>),
      Exp1 :> <<DeepCall>>,
      (Exp1 :> <<GoodPut>>) @@ (Exp2 :> <<>>) }

FewEtfChainChoices == { Exp1 :> <<>>, Exp1 :> <<GoodPut, GoodCall>>,
                        Exp1 :> <<ThinCall>> }

EtfLists == { <<"SQQQ">>, <<"SQQQ", "SH">>, <<"SH", "SQQQ", "SDS">> }

SummaryConfigs ==
    { ("etfs" :> l) @@ c :
        l \in EtfLists, c \in {EmptyDict, "annualized_return_target" :> 300} }

\* chains of refresh_all: an ETF whose fetch gave nothing has no entry
FetchedChains ==
    UNION { { [e \in S |-> IF e = "SDS" THEN f[2] ELSE f[1][e]] :
              f \in [S \ {"SDS"} -> EtfChainChoices] \X FewEtfChainChoices } :
            S \in SUBSET {"SQQQ", "SH", "SDS"} }

FetchedQuotes == { [e \in {"SQQQ", "SH", "SDS"} |-> 2400],
                   [e \in {"SH", "SDS"} |-> 2400] }

InitSummary ==
    /\ pc = "fetched"
    /\ config \in SummaryConfigs
    /\ chains \in FetchedChains
    /\ quotes \in FetchedQuotes
    /\ summary_vix_color \in {"green", "red"}
    /\ sp_color \in Colors
    /\ ndx_color \in Colors
    /\ enriched_chains = EmptyDict
    /\ etf_statuses = <<>>
    /\ IdleNotSummary

\* the loop of refresh_dashboard that enriches all chains
EnrichAllChains ==
    /\ pc = "fetched"
    /\ enriched_chains' =
           EnrichChains(chains, UnderlyingPricesOf(quotes, config), config)
    /\ pc' = "enriched"
    /\ UNCHANGED <<config, chains, quotes, summary_vix_color, sp_color,
                   ndx_color, etf_statuses, notSummaryVars>>

\* etf_statuses = etf_status_summary(enriched_chains, underlying_prices, ...)
EtfStatusSummary ==
    /\ pc = "enriched"
    /\ etf_statuses' =
           etf_status_summary(enriched_chains,
                              UnderlyingPricesOf(quotes, config),
                              summary_vix_color, sp_color, ndx_color, config)
    /\ pc' = "summarised"
    /\ UNCHANGED <<config, chains, quotes, summary_vix_color, sp_color,
                   ndx_color, enriched_chains, notSummaryVars>>

NextSummary == EnrichAllChains \/ EtfStatusSummary

SpecSummary == InitSummary /\ [][NextSummary]_vars

Etfs == Get(config, "etfs", <<>>)

\* the contracts of an ETF, over all its expirations, that
\* option_traffic_light gives the colour c and whose type is in types
Contracts(etf, c, types) ==
    LET etf_chains == Get(enriched_chains, etf, EmptyDict)
        idx        == IF etf = "SQQQ" THEN ndx_color ELSE sp_color
    IN  { p \in UNION { { <<k, n>> : n \in DOMAIN etf_chains[k] } :
                        k \in DOMAIN etf_chains } :
            /\ option_traffic_light(etf_chains[p[1]][p[2]], summary_vix_color,
                                    idx, config).color = c
            /\ etf_chains[p[1]][p[2]].type \in types }

NoContracts(etf) ==
    \A k \in DOMAIN Get(chains, etf, EmptyDict) : chains[etf][k] = <<>>

\* C18: the summary has one entry per configured ETF, in config order;
\* green_calls and green_puts count the contracts over all expirations that
\* option_traffic_light gives green, with the Nasdaq colour for SQQQ and the
\* S&P colour for every other ETF; total_green is their sum; status_color is
\* green with at least one green contract, else yellow with at least one
\* yellow contract, else red; and when every chain is empty or missing every
\* ETF is red with all three counts 0.
C18_EtfStatusSummary ==
    pc = "summarised" =>
        /\ Len(etf_statuses) = Len(Etfs)
        /\ \A i \in DOMAIN Etfs :
              LET s   == etf_statuses[i]
                  etf == Etfs[i]
              IN  /\ s.symbol = etf
                  /\ s.green_calls = Cardinality(Contracts(etf, "green", {"call"}))
                  /\ s.green_puts = Cardinality(Contracts(etf, "green", {"put"}))
                  /\ s.total_green = s.green_calls + s.green_puts
                  /\ s.status_color =
                         IF s.total_green >= 1 THEN "green"
                         ELSE IF Contracts(etf, "yellow", {"call", "put"}) # {}
                         THEN "yellow"
                         ELSE "red"
        /\ (\A e \in {"SQQQ", "SH", "SDS"} : NoContracts(e))
               => \A i \in DOMAIN Etfs :
                      /\ etf_statuses[i].status_color = "red"
                      /\ etf_statuses[i].green_calls = 0
                      /\ etf_statuses[i].green_puts = 0
                      /\ etf_statuses[i].total_green = 0

\* three ETFs under a red S&P and a green Nasdaq colour: SH first and
\* yellow, SQQQ second and green with two green calls and one green put
\* over two expirations, SDS red
C18_Witness ==
    /\ pc = "summarised"
    /\ Len(etf_statuses) = 3
    /\ sp_color = "red" /\ ndx_color = "green"
    /\ etf_statuses[1].symbol = "SH" /\ etf_statuses[1].status_color = "yellow"
    /\ etf_statuses[2].symbol = "SQQQ" /\ etf_statuses[2].green_calls = 2
    /\ etf_statuses[2].green_puts = 1 /\ etf_statuses[2].total_green = 3
    /\ etf_statuses[2].status_color = "green"
    /\ etf_statuses[3].status_color = "red"

-----------------------------------------------------------------------------
(* data/greeks.py.  A Python float is kept by its sign and its decimal     *)
(* magnitude: s * 10^e, or zero, an infinity, or NaN.  The largest finite  *)
(* float is about 1.8 * 10^308 and the smallest positive one about         *)
(* 4.9 * 10^-324, and that is all the errors of the Black-Scholes          *)
(* formulas depend on.                                                     *)

MaxExp10 == 308
MinExp10 == -323

PNaN       == [k |-> "nan", s |-> 0, e |-> 0]
PZero      == [k |-> "zero", s |-> 0, e |-> 0]
PInf       == [k |-> "inf", s |-> 1, e |-> 0]
PPos(e)    == [k |-> "num", s |-> 1, e |-> e]
PNeg(e)    == [k |-> "num", s |-> -1, e |-> e]

\* x <= 0 on floats: false for NaN
LeqZero(x) == x.k = "zero" \/ (x.k \in {"num", "inf"} /\ x.s < 0)

\* a finite float of magnitude 10^e, where it overflows to an infinity or
\* underflows to zero
Finite(s, e) ==
    IF e > MaxExp10 THEN [k |-> "inf", s |-> s, e |-> 0]
    ELSE IF e < MinExp10 THEN PZero
    ELSE [k |-> "num", s |-> s, e |-> e]

\* a / b with b non-zero
PyQuotient(a, b) ==
    IF a.k = "nan" \/ b.k = "nan" \/ (a.k = "inf" /\ b.k = "inf") THEN PNaN
    ELSE IF a.k = "zero" \/ b.k = "inf" THEN PZero
    ELSE IF a.k = "inf" THEN [k |-> "inf", s |-> a.s * b.s, e |-> 0]
    ELSE Finite(a.s * b.s, a.e - b.e)

\* a * b
PyProduct(a, b) ==
    IF a.k = "nan" \/ b.k = "nan" THEN PNaN
    ELSE IF a.k = "zero" \/ b.k = "zero"
    THEN (IF a.k = "inf" \/ b.k = "inf" THEN PNaN ELSE PZero)
    ELSE IF a.k = "inf" \/ b.k = "inf"
    THEN [k |-> "inf", s |-> a.s * b.s, e |-> 0]
    ELSE Finite(a.s * b.s, a.e + b.e)

\* math.sqrt(x) for x >= 0 or NaN; the magnitude of the root of 10^e
MathSqrt(x) ==
    IF x.k = "num" THEN [k |-> "num", s |-> 1, e |-> x.e \div 2] ELSE x

NoError == "none"

\* the first error _d1 raises for these arguments: math.log of a quotient
\* that underflowed to zero, sigma**2 out of range, or a division by a
\* product sigma * sqrt(T) that underflowed to zero
D1Error(S, K, T_years, r, sigma) ==
    LET quotient == PyQuotient(S, K)
        den      == PyProduct(sigma, MathSqrt(T_years))
    IN  IF LeqZero(quotient) THEN "ValueError"
        ELSE IF sigma.k = "num" /\ 2 * sigma.e > MaxExp10 THEN "OverflowError"
        ELSE IF den.k = "zero" THEN "ZeroDivisionError"
        ELSE NoError

\* math.exp(-r * T) is out of range when -r * T is finite and above 709.78
ExpError(T_years, r) ==
    LET x == PyProduct(r, T_years)
    IN  IF x.k = "num" /\ x.s < 0 /\ x.e >= 3 THEN "OverflowError" ELSE NoError

\* the error the try block of compute_greeks ends with, if any; the
\* divisions by S * sigma * sqrt_T and 2 * sqrt_T have a numpy float as
\* numerator and give inf or nan where the denominator is zero
TryError(S, K, T_years, r, sigma) ==
    IF D1Error(S, K, T_years, r, sigma) # NoError THEN D1Error(S, K, T_years, r, sigma)
    ELSE ExpError(T_years, r)

None == [greek |-> "None"]

\* the value of one Black-Scholes formula at these arguments, rounded; a
\* float, which may be nan or an infinity
BlackScholes(greek, S, K, T_years, r, sigma, option_type) ==
    [greek |-> greek, S |-> S, K |-> K, T |-> T_years, r |-> r, sigma |-> sigma,
     side |-> IF greek \in {"gamma", "vega"} THEN "both"
              ELSE IF option_type = "call" THEN "call" ELSE "put"]

EmptyGreeks == [delta |-> None, gamma |-> None, theta |-> None, vega |-> None]

CaughtErrors == {"ValueError", "ZeroDivisionError", "OverflowError"}

\* mutant: the guard does not look at sigma
compute_greeks_sigma_unguarded(S, K, T_years, r, sigma, option_type) ==
    IF LeqZero(T_years) \/ LeqZero(S) \/ LeqZero(K)
    THEN [raised |-> NoError, value |-> EmptyGreeks]
    ELSE LET err == TryError(S, K, T_years, r, sigma)
         IN  IF err = NoError
             THEN [raised |-> NoError,
                   value |-> [g \in {"delta", "gamma", "theta", "vega"} |->
                                BlackScholes(g, S, K, T_years, r, sigma, option_type)]]
             ELSE IF err \in CaughtErrors
             THEN [raised |-> NoError, value |-> EmptyGreeks]
             ELSE [raised |-> err, value |-> EmptyGreeks]

\* compute_greeks(S, K, T, r, sigma, option_type): what it returns, and the
\* exception that leaves it, if any
compute_greeks(S, K, T_years, r, sigma, option_type) ==
    IF LeqZero(T_years) \/ LeqZero(sigma) \/ LeqZero(S) \/ LeqZero(K)
    THEN [raised |-> NoError, value |-> EmptyGreeks]
    ELSE LET err == TryError(S, K, T_years, r, sigma)
         IN  IF err = NoError
             THEN [raised |-> NoError,
                   value |-> [g \in {"delta", "gamma", "theta", "vega"} |->
                                BlackScholes(g, S, K, T_years, r, sigma, option_type)]]
             ELSE IF err \in CaughtErrors
             THEN [raised |-> NoError, value |-> EmptyGreeks]
             ELSE [raised |-> err, value |-> EmptyGreeks]

-----------------------------------------------------------------------------
(* Specification SpecGreeks: compute_greeks on arguments of either sign,   *)
(* zero, NaN, and magnitudes at both ends of the float range.              *)

GreekPrices  == {PNeg(1), PZero, PPos(1), PPos(-200), PPos(300), PNaN}
GreekStrikes == {PNeg(1), PZero, PPos(1), PPos(200), PPos(-200), PInf}
GreekYears   == {PNeg(-2), PZero, PPos(-2), PPos(-300), PPos(4)}
GreekVols    == {PNeg(0), PZero, PPos(0), PPos(200), PPos(-300), PNaN}
GreekRates   == {PPos(-2), PZero, PNeg(-1)}

InitGreeks ==
    /\ pc = "greeks"
    /\ config = EmptyDict
    /\ greeks_args \in [S : GreekPrices, K : GreekStrikes, T : GreekYears,
                        r : GreekRates, sigma : GreekVols,
                        option_type : {"call", "put"}]
    /\ greeks_out = EmptyDict
    /\ IdleNotGreeks

ComputeGreeks ==
    /\ pc = "greeks"
    /\ greeks_out' = compute_greeks(greeks_args.S, greeks_args.K, greeks_args.T,
                                    greeks_args.r, greeks_args.sigma,
                                    greeks_args.option_type)
    /\ pc' = "returned"
    /\ UNCHANGED <<config, greeks_args, notGreeksVars>>

NextGreeks == ComputeGreeks

SpecGreeks == InitGreeks /\ [][NextGreeks]_vars

GreekNames == {"delta", "gamma", "theta", "vega"}

InvalidGreekArgs ==
    \/ LeqZero(greeks_args.T) \/ LeqZero(greeks_args.sigma)
    \/ LeqZero(greeks_args.S) \/ LeqZero(greeks_args.K)

\* C19: compute_greeks returns the all-None sentinel whenever T <= 0 or
\* sigma <= 0 or S <= 0 or K <= 0, T = 0 included; a domain, zero-division or
\* overflow error of the formulas gives the sentinel and no exception leaves
\* the function; and the result is always all four of delta, gamma, theta,
\* vega as numbers or all four as None.
C19_SentinelOrNumbers ==
    pc = "returned" =>
        /\ greeks_out.raised = NoError
        /\ InvalidGreekArgs => greeks_out.value = EmptyGreeks
        /\ TryError(greeks_args.S, greeks_args.K, greeks_args.T,
                    greeks_args.r, greeks_args.sigma) # NoError
               => greeks_out.value = EmptyGreeks
        /\ DOMAIN greeks_out.value = GreekNames
        /\ \/ \A g \in GreekNames : greeks_out.value[g] = None
           \/ \A g \in GreekNames : greeks_out.value[g] # None

\* positive arguments whose sigma**2 is out of range: the sentinel
C19_Witness ==
    /\ pc = "returned"
    /\ ~InvalidGreekArgs
    /\ D1Error(greeks_args.S, greeks_args.K, greeks_args.T,
               greeks_args.r, greeks_args.sigma) = "OverflowError"
    /\ greeks_out.value = EmptyGreeks
    /\ greeks_out.raised = NoError

-----------------------------------------------------------------------------
(* greeks.compute_greeks_for_chain and the chain fetch of refresh_all.  A  *)
(* frame is the sequence of its rows; every row has the frame's columns as *)
(* its fields, and a cell without a value holds NaN.                       *)

DefaultRiskFreeRate == PPos(-2)

\* config.get("risk_free_rate", 0.05)
RiskFreeRate(cfg) == Get(cfg, "risk_free_rate", DefaultRiskFreeRate)

\* row[dte_col] / 365.0, by sign and decimal magnitude
YearsOf(dte) ==
    IF dte = 0 THEN PZero
    ELSE IF dte < 0 THEN PNeg(-2)
    ELSE IF dte >= 365 THEN PPos(0)
    ELSE IF dte >= 37 THEN PPos(-1)
    ELSE IF dte >= 4 THEN PPos(-2)
    ELSE PPos(-3)

\* row.get("impliedVolatility", 0) or 0: NaN is kept
SigmaOf(r) == Get(r, "impliedVolatility", PZero)

\* what compute_greeks gives for one row of a chain
RowGreeks(r, price, rate) ==
    compute_greeks(price, r.strike, YearsOf(r.dte), rate, SigmaOf(r), r.type)

\* compute_greeks_for_chain(chain_df, underlying_price, risk_free_rate): the
\* four columns are assigned for every row of the copy
compute_greeks_for_chain(rows, price, rate) ==
    [i \in DOMAIN rows |-> RowGreeks(rows[i], price, rate).value @@ rows[i]]

ChainRaises(rows, price, rate) ==
    \E i \in DOMAIN rows : RowGreeks(rows[i], price, rate).raised # NoError

\* the columns of a non-empty frame
Columns(rows) == DOMAIN rows[1]

\* chain_df of refresh_all after a cache miss, from the provider's chain
FetchChain(rows, last, cfg) ==
    IF rows = <<>> THEN rows
    ELSE IF ~LeqZero(last) /\ last # PNaN /\ "delta" \notin Columns(rows)
    THEN IF ChainRaises(rows, last, RiskFreeRate(cfg)) THEN <<>>
         ELSE compute_greeks_for_chain(rows, last, RiskFreeRate(cfg))
    ELSE rows

-----------------------------------------------------------------------------
(* Specification SpecPass: one chain of a DataProvider through the fetch   *)
(* of refresh_all.  The provider may or may not include Greeks             *)
(* (provider.py): YFinanceProvider has no such columns, another provider   *)
(* has them, with values for the contracts it has Greeks for.              *)

MaxChain == 2

\* the contract columns the Greeks are computed from
ContractRows ==
    { [type |-> t, strike |-> PPos(1), dte |-> d, impliedVolatility |-> v] :
        t \in {"call", "put"}, d \in {7, 30}, v \in {PZero, PPos(0), PNaN} }

\* a value a provider supplies in a Greeks column
Supplied(g) == [greek |-> g, source |-> "provider"]

\* the cells of the Greeks columns of one row: every column of cols holds the
\* provider's value, or NaN where the provider has none for the contract
GreekCells(cols, has) == [g \in cols |-> IF has THEN Supplied(g) ELSE PNaN]

ProviderColumns == { {}, GreekNames }

ProviderChains ==
    UNION { UNION { { [i \in 1..n |-> GreekCells(cols, has[i]) @@ base[i]] :
                      base \in [1..n -> ContractRows], has \in [1..n -> BOOLEAN] } :
                    n \in 0..MaxChain } :
            cols \in ProviderColumns }

InitPass ==
    /\ pc = "chain fetched"
    /\ config \in {EmptyDict, "risk_free_rate" :> PNeg(-1)}
    /\ provider_chain \in ProviderChains
    /\ quote_last \in {PZero, PPos(1)}
    /\ fetched_chain = <<>>
    /\ IdleNotPass

\* refresh_all, the chain of one expiration after a cache miss
RefreshChain ==
    /\ pc = "chain fetched"
    /\ fetched_chain' = FetchChain(provider_chain, quote_last, config)
    /\ pc' = "chain cached"
    /\ UNCHANGED <<config, provider_chain, quote_last, notPassVars>>

NextPass == RefreshChain

SpecPass == InitPass /\ [][NextPass]_vars

\* the Greeks the provider supplied for a row
HasProviderGreeks(r) ==
    \E g \in GreekNames : g \in DOMAIN r /\ r[g] # PNaN

\* C20: in the Greeks pass of refresh_all over a non-empty chain with a
\* positive underlying price, every row that carries provider Greeks keeps
\* them unchanged, and every row without them has the four values
\* compute_greeks gives for its own strike, expiry, volatility and type:
\* numbers or the all-None sentinel, whatever the other rows hold.
C20_PerRowPass ==
    (pc = "chain cached" /\ provider_chain # <<>> /\ ~LeqZero(quote_last)) =>
        /\ Len(fetched_chain) = Len(provider_chain)
        /\ \A i \in DOMAIN provider_chain :
              LET r == provider_chain[i]
              IN  IF HasProviderGreeks(r)
                  THEN \A g \in GreekNames \cap DOMAIN r :
                          r[g] # PNaN => fetched_chain[i][g] = r[g]
                  ELSE /\ GreekNames \subseteq DOMAIN fetched_chain[i]
                       /\ \A g \in GreekNames :
                             fetched_chain[i][g] =
                                 RowGreeks(r, quote_last,
                                           RiskFreeRate(config)).value[g]

-----------------------------------------------------------------------------
(* Specification SpecOrder: the counting loops of etf_status_summary for   *)
(* one ETF, with the contracts taken in any order, the expirations         *)
(* interleaved.                                                            *)

ZeroCounters == [green_calls |-> 0, green_puts |-> 0, yellow_count |-> 0]

\* mutant: a green put is counted only while no green call has been counted
AddRow_puts_before_calls(c, r, vc, ic, cfg) ==
    LET t == Tally(r, vc, ic, cfg)
    IN  IF t = "none" \/ (t = "green_puts" /\ c.green_calls > 0) THEN c
        ELSE [c EXCEPT ![t] = @ + 1]

\* the body of the loop over the rows: the counters after one more row
AddRow(c, r, vc, ic, cfg) ==
    LET t == Tally(r, vc, ic, cfg)
    IN  IF t = "none" THEN c ELSE [c EXCEPT ![t] = @ + 1]

\* idx_color = ndx_color if etf == "SQQQ" else sp_color
IdxColor(etf, colors) == IF etf = "SQQQ" THEN colors.ndx ELSE colors.sp

\* the contracts of the chains of an ETF, the empty frames having none
ContractsOf(etf_chains) ==
    UNION { { <<k, n>> : n \in DOMAIN etf_chains[k] } : k \in DOMAIN etf_chains }

\* the entry of an ETF from its final counters
StatusOf(etf, c) ==
    LET total_green == c.green_calls + c.green_puts
    IN  [symbol       |-> etf,
         green_calls  |-> c.green_calls,
         green_puts   |-> c.green_puts,
         total_green  |-> total_green,
         status_color |-> IF total_green >= 1 THEN "green"
                          ELSE IF c.yellow_count > 0 THEN "yellow"
                          ELSE "red"]

OrderConfigs == {EmptyDict, "annualized_return_target" :> 300}

InitOrder ==
    /\ pc = "counting"
    /\ config \in OrderConfigs
    /\ order_etf \in {"SQQQ", "SH"}
    /\ order_colors \in [vix : {"green", "red"}, sp : Colors, ndx : Colors]
    /\ \E fetched \in EtfChainChoices :
          order_chains =
              EnrichChains("etf" :> fetched, "etf" :> 2400, config)["etf"]
    /\ pending = ContractsOf(order_chains)
    /\ counters = ZeroCounters
    /\ lights = EmptyDict
    /\ order_status = EmptyDict
    /\ IdleNotOrder

\* one iteration of the inner loop, for any contract not yet processed
ProcessRow ==
    /\ pc = "counting"
    /\ \E p \in pending :
          LET r  == order_chains[p[1]][p[2]]
              ic == IdxColor(order_etf, order_colors)
          IN  /\ lights' = (p :> option_traffic_light(r, order_colors.vix, ic,
                                                      config)) @@ lights
              /\ counters' = AddRow(counters, r, order_colors.vix, ic, config)
              /\ pending' = pending \ {p}
    /\ UNCHANGED <<pc, config, order_etf, order_colors, order_chains,
                   order_status, notOrderVars>>

\* the entry appended to results after the loops
AppendStatus ==
    /\ pc = "counting"
    /\ pending = {}
    /\ order_status' = StatusOf(order_etf, counters)
    /\ pc' = "summarised"
    /\ UNCHANGED <<config, order_etf, order_colors, order_chains, pending,
                   counters, lights, notOrderVars>>

NextOrder == ProcessRow \/ AppendStatus

SpecOrder == InitOrder /\ [][NextOrder]_vars

\* the entry etf_status_summary computes for the ETF in its own order
SequentialStatus ==
    LET cfg == ("etfs" :> <<order_etf>>) @@ config
    IN  etf_status_summary(order_etf :> order_chains, order_etf :> 2400,
                           order_colors.vix, order_colors.sp,
                           order_colors.ndx, cfg)[1]

\* C21: whatever the order in which the expirations of an ETF and the rows
\* of each chain are processed, every contract gets the traffic light that
\* option_traffic_light gives its own row, and green_calls, green_puts,
\* total_green and status_color are those of etf_status_summary.
C21_OrderIndependent ==
    /\ \A p \in DOMAIN lights :
          lights[p] = option_traffic_light(order_chains[p[1]][p[2]],
                                           order_colors.vix,
                                           IdxColor(order_etf, order_colors),
                                           config)
    /\ pc = "summarised" =>
          /\ order_status.green_calls = SequentialStatus.green_calls
          /\ order_status.green_puts = SequentialStatus.green_puts
          /\ order_status.total_green = SequentialStatus.total_green
          /\ order_status.status_color = SequentialStatus.status_color

\* four contracts over two expirations, three of them green, one yellow
C21_Witness ==
    /\ pc = "summarised"
    /\ Cardinality(DOMAIN lights) = 4
    /\ order_status.green_calls = 2 /\ order_status.green_puts = 1
    /\ counters.yellow_count = 1
    /\ order_status.status_color = "green"

-----------------------------------------------------------------------------
(* The callbacks that write the page: refresh_dashboard (auto-refresh tick *)
(* and Refresh Now), update_chain_on_control_change and                    *)
(* update_index_cards_on_strategy_change (strategy toggle).                *)

StrategyLabel(strat) ==
    IF strat = "short_calls" THEN "Short Calls" ELSE "Cash-Secured Puts"

\* one index card: the traffic light of the index for the strategy, and the
\* strategy named in its badge; techs is get_index_technicals of the cached
\* history, which every callback computes anew from the same history
IndexCard(techs, strat, cfg) ==
    [tl    |-> index_traffic_light(techs, strat, cfg),
     badge |-> StrategyLabel(strat)]

VixLight(md, cfg) == vix_traffic_light(md.vix_level, cfg)

\* the ETF status card of refresh_dashboard
EtfCard(md, strat, cfg) ==
    LET underlying_prices == UnderlyingPricesOf(md.quotes, cfg)
    IN  etf_status_summary(EnrichChains(md.chains, underlying_prices, cfg),
                           underlying_prices,
                           VixLight(md, cfg).color,
                           IndexCard(md.sp, strat, cfg).tl.color,
                           IndexCard(md.ndx, strat, cfg).tl.color,
                           cfg)

\* sort_values("ann_return", ascending=False) on a short frame: the rows in
\* descending ann_return, equal ones in their former order
RECURSIVE SortByReturn(_)
SortByReturn(rows) ==
    IF rows = <<>> THEN <<>>
    ELSE LET sorted == SortByReturn(SubSeq(rows, 1, Len(rows) - 1))
             r      == rows[Len(rows)]
             before == SelectSeq(sorted, LAMBDA x : x.ann_return >= r.ann_return)
             after  == SelectSeq(sorted, LAMBDA x : x.ann_return < r.ann_return)
         IN  before \o <<r>> \o after

\* the option chain table for the selected ETF and expiration: the contracts
\* of the strategy's type, sorted, each with its traffic light
ChainTable(md, strat, etf, exp_key, cfg) ==
    LET etf_chains == Get(md.chains, etf, EmptyDict)
        chain      == Get(etf_chains, exp_key, <<>>)
    IN  IF chain = <<>> THEN <<>>
        ELSE LET enriched_rows == EnrichedRows(chain, Get(md.quotes, etf, 0), cfg)
                 wanted   == IF strat = "short_calls" THEN "call" ELSE "put"
                 filtered == SortByReturn(
                                 SelectSeq(enriched_rows, LAMBDA x : x.type = wanted))
                 idx_color == IF etf = "SQQQ"
                              THEN IndexCard(md.ndx, strat, cfg).tl.color
                              ELSE IndexCard(md.sp, strat, cfg).tl.color
             IN  [i \in DOMAIN filtered |->
                     [row |-> filtered[i],
                      tl  |-> option_traffic_light(filtered[i],
                                  VixLight(md, cfg).color, idx_color, cfg)]]

\* the etf-selector and expiration-selector values
SelectedEtf == "SH"
SelectedExp == Exp1

-----------------------------------------------------------------------------
(* Specification SpecDash: the page under toggles and refreshes, the       *)
(* market data staying as cached.                                          *)

DashHistories ==
    { <<>>, History(98, <<2, <<1>> >>, 2), History(98, <<2, <<3>> >>, 2),
      History(98, <<12, <<40, 1>> >>, 0) }

DashConfig == "etfs" :> <<"SH", "SQQQ">>

MarketData ==
    { [vix_level |-> v, sp |-> get_index_technicals(s),
       ndx |-> get_index_technicals(n),
       quotes |-> [e \in {"SH", "SQQQ"} |-> 2400],
       chains |-> ("SH" :> c1) @@ ("SQQQ" :> c2)] :
        v \in {20, 40}, s \in DashHistories, n \in DashHistories,
        c1 \in EtfChainChoices, c2 \in FewEtfChainChoices }

\* what refresh_dashboard writes for a strategy
Page(md, strat, cfg) ==
    [cards |-> [vix |-> VixLight(md, cfg),
                sp  |-> IndexCard(md.sp, strat, cfg),
                ndx |-> IndexCard(md.ndx, strat, cfg)],
     etf   |-> EtfCard(md, strat, cfg),
     table |-> ChainTable(md, strat, SelectedEtf, SelectedExp, cfg)]

\* the page after the initial call of refresh_dashboard, the toggle at its
\* default
InitDash ==
    /\ pc = "page"
    /\ config = DashConfig
    /\ market \in MarketData
    /\ toggle = "short_calls"
    /\ shown_cards = Page(market, toggle, config).cards
    /\ shown_etf = Page(market, toggle, config).etf
    /\ shown_table = Page(market, toggle, config).table
    /\ IdleNotDash

\* refresh_dashboard: its Inputs are the interval and the button, the
\* strategy toggle is a State
RefreshDashboard ==
    /\ shown_cards' = Page(market, toggle, config).cards
    /\ shown_etf' = Page(market, toggle, config).etf
    /\ shown_table' = Page(market, toggle, config).table
    /\ UNCHANGED <<pc, config, market, toggle, notDashVars>>

\* the user switches the strategy: the two callbacks that have the toggle as
\* Input run
ToggleStrategy ==
    /\ toggle' = IF toggle = "short_calls" THEN "cash_secured_puts"
                 ELSE "short_calls"
    /\ shown_table' = ChainTable(market, toggle', SelectedEtf, SelectedExp, config)
    /\ shown_cards' = [shown_cards EXCEPT
                          !.sp = IndexCard(market.sp, toggle', config),
                          !.ndx = IndexCard(market.ndx, toggle', config)]
    /\ UNCHANGED <<pc, config, market, shown_etf, notDashVars>>

NextDash == RefreshDashboard \/ ToggleStrategy

SpecDash == InitDash /\ [][NextDash]_vars

\* C22: after the strategy toggle is switched, the S&P and Nasdaq cards, the
\* ETF status counts and the option chain table are those of the selected
\* strategy, as a result of the toggle event itself.
C22_ToggleReflected ==
    [][ToggleStrategy =>
          /\ shown_cards'.sp = Page(market, toggle', config).cards.sp
          /\ shown_cards'.ndx = Page(market, toggle', config).cards.ndx
          /\ shown_etf' = Page(market, toggle', config).etf
          /\ shown_table' = Page(market, toggle', config).table]_vars

-----------------------------------------------------------------------------
(* data/cache.py, the in-memory cache: _cache maps a key to its entry.     *)
(* What get returns is a record: hit is FALSE for None.                    *)

Miss == [hit |-> FALSE, value |-> 0]
Hit(v) == [hit |-> TRUE, value |-> v]

\* mutant: an entry is no longer served at its expiry instant
cache_get_expired_at_instant(c, key, t) ==
    IF key \notin DOMAIN c THEN [cache |-> c, got |-> Miss]
    ELSE IF t >= c[key].expires_at
    THEN [cache |-> [k \in DOMAIN c \ {key} |-> c[k]], got |-> Miss]
    ELSE [cache |-> c, got |-> Hit(c[key].value)]

\* get(key) at time t: the cache afterwards and the value returned
cache_get(c, key, t) ==
    IF key \notin DOMAIN c THEN [cache |-> c, got |-> Miss]
    ELSE IF t > c[key].expires_at
    THEN [cache |-> [k \in DOMAIN c \ {key} |-> c[k]], got |-> Miss]
    ELSE [cache |-> c, got |-> Hit(c[key].value)]

\* set(key, value, ttl_seconds) at time t
cache_set(c, key, value, ttl_seconds, t) ==
    (key :> [value |-> value, expires_at |-> t + ttl_seconds, stored_at |-> t])
        @@ c

\* is_stale(key) at time t: get(key) is None
cache_is_stale(c, key, t) ==
    [cache |-> cache_get(c, key, t).cache, stale |-> ~cache_get(c, key, t).got.hit]

-----------------------------------------------------------------------------
(* Specification SpecCache: any sequence of set, get, is_stale and clear,  *)
(* the clock moving on between them.                                       *)

MaxClock == 4

CacheKeys == {"quotes", "market_data"}
CacheValues == {"v1", "v2"}
CacheTtls == {0, 1, 2}

InitCache ==
    /\ pc = "cache"
    /\ config = EmptyDict
    /\ cache = EmptyDict
    /\ now = 0
    /\ written = EmptyDict
    /\ observed = [op |-> "none"]
    /\ IdleNotStore

CacheSet ==
    \E key \in CacheKeys, v \in CacheValues, ttl \in CacheTtls :
        /\ cache' = cache_set(cache, key, v, ttl, now)
        /\ written' = (key :> [value |-> v, at |-> now, ttl |-> ttl]) @@ written
        /\ observed' = [op |-> "set", key |-> key]
        /\ UNCHANGED <<pc, config, now, notStoreVars>>

CacheGet ==
    \E key \in CacheKeys :
        /\ cache' = cache_get(cache, key, now).cache
        /\ observed' = [op |-> "get", key |-> key,
                        got |-> cache_get(cache, key, now).got]
        /\ UNCHANGED <<pc, config, now, written, notStoreVars>>

CacheIsStale ==
    \E key \in CacheKeys :
        /\ cache' = cache_is_stale(cache, key, now).cache
        /\ observed' = [op |-> "is_stale", key |-> key,
                        stale |-> cache_is_stale(cache, key, now).stale]
        /\ UNCHANGED <<pc, config, now, written, notStoreVars>>

CacheClear ==
    /\ cache' = EmptyDict
    /\ written' = EmptyDict
    /\ observed' = [op |-> "clear"]
    /\ UNCHANGED <<pc, config, now, notStoreVars>>

ClockTick ==
    /\ now < MaxClock
    /\ now' = now + 1
    /\ UNCHANGED <<pc, config, cache, written, observed, notStoreVars>>

NextCache == CacheSet \/ CacheGet \/ CacheIsStale \/ CacheClear \/ ClockTick

SpecCache == InitCache /\ [][NextCache]_vars

\* what get(key) has to return now: the value of the last set of the key
\* that no clear followed, up to and including its expiry instant
Expected(key) ==
    IF key \in DOMAIN written /\ now <= written[key].at + written[key].ttl
    THEN Hit(written[key].value)
    ELSE Miss

\* C25: get(key) returns the value of the last set up to and including the
\* expiry instant (set time + ttl) and None at every later time, and None
\* for a key never set or cleared; the get that finds an entry expired
\* removes it; is_stale(key) is true exactly when get(key) would return None.
C25_TtlCache ==
    [][/\ CacheGet =>
            /\ observed'.got.hit = Expected(observed'.key).hit
            /\ observed'.got.hit =>
                 observed'.got.value = Expected(observed'.key).value
            /\ ~observed'.got.hit => observed'.key \notin DOMAIN cache'
       /\ CacheIsStale =>
            (observed'.stale <=> ~Expected(observed'.key).hit)]_vars

\* a get at the expiry instant that returns the value, after an earlier
\* entry of the other key was found expired and removed
C25_Witness ==
    /\ "op" \in DOMAIN observed /\ observed.op = "get"
    /\ observed.got.hit
    /\ observed.key \in DOMAIN written
    /\ written[observed.key].ttl > 0
    /\ now = written[observed.key].at + written[observed.key].ttl
    /\ \E k \in DOMAIN written : k \notin DOMAIN cache


(***************************************************************************)
(* Specification SpecHist: the SQLite store of daily prices                *)
(* (src/data/cache.py, historical_prices and save_historical).             *)
(* A row of the table is [symbol, date, close]; the table is the set of    *)
(* its rows.  A DataFrame is a sequence of [idx, Close] rows, where idx is *)
(* a timestamp [day, hour].                                                *)
(***************************************************************************)

\* pd.Timestamp(idx).strftime("%Y-%m-%d"): the day of a timestamp
DateStr(idx) == idx.day

\* INSERT OR REPLACE of one row under PRIMARY KEY (symbol, date): a row
\* with the same key is deleted, then the new row is inserted
InsertOrReplace(table, r) ==
    { q \in table : ~(q.symbol = r.symbol /\ q.date = r.date) } \cup {r}

\* save_historical(symbol, df): nothing for an empty frame, else one
\* INSERT OR REPLACE per row of df, in row order
RECURSIVE save_historical(_, _, _)
save_historical(table, symbol, df) ==
    IF df = <<>> THEN table
    ELSE save_historical(
             InsertOrReplace(table, [symbol |-> symbol,
                                     date   |-> DateStr(Head(df).idx),
                                     close  |-> Head(df).Close]),
             symbol, Tail(df))

HistSymbols == {"SPY", "QQQ"}
HistDays    == {1, 2, 3}
HistCloses  == {500, 510}
HistRows    == [idx : [day : HistDays, hour : {0}], Close : HistCloses]

\* the frames a provider's get_historical returns: ascending dates
HistFrames ==
    { <<>> } \cup { <<r>> : r \in HistRows }
             \cup { <<r, q>> : <<r, q>> \in
                        { w \in HistRows \X HistRows : w[1].idx.day < w[2].idx.day } }

InitHist == IdleNotHist /\ pc = "hist" /\ config = EmptyDict /\ db = {}

SaveHistorical ==
    /\ pc = "hist"
    /\ \E symbol \in HistSymbols, df \in HistFrames :
         db' = save_historical(db, symbol, df)
    /\ UNCHANGED <<pc, config, notHistVars>>

NextHist == SaveHistorical

SpecHist == InitHist /\ [][NextHist]_vars

\* the table holds at most one row per (symbol, date)
OneRowPerKey ==
    \A r \in db, q \in db : (r.symbol = q.symbol /\ r.date = q.date) => r = q

\* C26: the store is append-only -- a saved row for a (symbol, date) is
\* never changed or removed by a later save_historical, and the table
\* holds at most one row per (symbol, date)
C26_AppendOnly ==
    [][SaveHistorical => (\A r \in db : r \in db') /\ OneRowPerKey']_vars


(***************************************************************************)
(* Specification SpecNear: the expiration chosen for a target DTE          *)
(* (src/data/fetch.py, _find_nearest_expiration).  A date is its day       *)
(* number; the result is NoDate (None) or SomeDate(d).                     *)
(***************************************************************************)

NoDate == [found |-> FALSE, date |-> 0]
SomeDate(d) == [found |-> TRUE, date |-> d]

Abs(x) == IF x < 0 THEN -x ELSE x

\* [e for e in expirations if e > today]
FutureExps(expirations, today) == SelectSeq(expirations, LAMBDA e : e > today)

\* min(seq, key=...): the first element whose key no other element undercuts
RECURSIVE MinByDistance(_, _, _)
MinByDistance(seq, target_date, best) ==
    IF seq = <<>> THEN best
    ELSE MinByDistance(Tail(seq), target_date,
             IF Abs(Head(seq) - target_date) < Abs(best - target_date)
             THEN Head(seq) ELSE best)

\* the same with the filter `e >= today`
find_nearest_expiration_from_today(expirations, target_dte, today) ==
    LET future_exps == SelectSeq(expirations, LAMBDA e : e >= today)
        target_date == today + target_dte
    IN  IF future_exps = <<>> THEN NoDate
        ELSE SomeDate(MinByDistance(Tail(future_exps), target_date,
                                    Head(future_exps)))

\* _find_nearest_expiration(expirations, target_dte) run on the day `today`
find_nearest_expiration(expirations, target_dte, today) ==
    LET future_exps == FutureExps(expirations, today)
        target_date == today + target_dte
    IN  IF future_exps = <<>> THEN NoDate
        ELSE SomeDate(MinByDistance(Tail(future_exps), target_date,
                                    Head(future_exps)))

MaxExps    == 3
NearDates  == 1..7
NearToday  == {3, 4}
NearDtes   == {0, 1, 2}
NearLists  == UNION { [1..n -> NearDates] : n \in 0..MaxExps }

InitNear ==
    /\ IdleNotNear /\ pc = "near" /\ config = EmptyDict
    /\ near_args \in [expirations : NearLists, target_dte : NearDtes,
                      today : NearToday]
    /\ near_result = EmptyDict

FindNearest ==
    /\ pc = "near"
    /\ near_result' = find_nearest_expiration(near_args.expirations,
                          near_args.target_dte, near_args.today)
    /\ pc' = "near_done"
    /\ UNCHANGED <<config, near_args, notNearVars>>

NextNear == FindNearest

SpecNear == InitNear /\ [][NextNear]_vars

\* the positions of the list that hold a date strictly after today
FuturePositions == { i \in DOMAIN near_args.expirations :
                       near_args.expirations[i] > near_args.today }

Distance(i) == Abs(near_args.expirations[i]
                    - (near_args.today + near_args.target_dte))

\* C28: None exactly when no expiration is strictly after today;
\* otherwise the date at the earliest list position, among the future
\* positions, whose distance in days from today + target_dte is minimal;
\* never a date of today or earlier
C28_NearestExpiration ==
    pc = "near_done" =>
        /\ (near_result = NoDate) <=> (FuturePositions = {})
        /\ FuturePositions # {} =>
             /\ near_result.found
             /\ near_result.date > near_args.today
             /\ \E i \in FuturePositions :
                  /\ near_result.date = near_args.expirations[i]
                  /\ \A j \in FuturePositions : Distance(i) <= Distance(j)
                  /\ \A j \in FuturePositions :
                       Distance(j) = Distance(i) => i <= j

\* two future expirations on either side of the target date, the later
\* one first in the list, a past expiration and today alongside
C28_Witness ==
    /\ pc = "near_done"
    /\ near_args.today = 3 /\ near_args.target_dte = 2
    /\ near_args.expirations = <<3, 6, 4>>
    /\ near_result = SomeDate(6)


(***************************************************************************)
(* Specification SpecPick: the option selection callback                   *)
(* (src/callbacks/option_selection.py, on_option_selected) under row       *)
(* clicks and control changes.  selected_rows holds 0-based row indexes.   *)
(***************************************************************************)

\* dash.no_update
NoUpdate == [no_update |-> TRUE]

\* the Outputs the callback declares, in order
DeclaredOutputs ==
    << "selected-option-value", "selected-option-detail",
       "selected-option-liquidity", "selected-option-accent", "payoff-chart" >>

\* update_selected_option_card(option_data, performance_color,
\* strategy_label): value, detail, liquidity text and accent class;
\* ann_return is shown with one decimal
update_selected_option_card(option_data, performance_color, strategy_label) ==
    LET color == IF performance_color.color \in {"green", "yellow", "red", "slate"}
                 THEN performance_color.color ELSE "slate"
    IN  << [ann_return |-> RoundHalfEven(option_data.ann_return, 10),
            class |-> color],
           [badge |-> strategy_label, symbol |-> option_data.contractSymbol,
            dte |-> option_data.dte, delta |-> option_data.delta],
           [oi |-> option_data.openInterest, volume |-> option_data.volume],
           [accent |-> color] >>

\* the number of points of a payoff table, compute_payoff_table's default
PayoffPointsDefault == 50

\* on_option_selected(selected_rows, table_data, strategy): the tuple the
\* callback returns; qs is get_market_data()["quotes"], cfg get_config()
on_option_selected(selected_rows, table_data, strat, qs, cfg) ==
    IF selected_rows = <<>> \/ table_data = <<>>
    THEN << NoUpdate, NoUpdate, NoUpdate, NoUpdate,
            NoUpdate, NoUpdate, NoUpdate, NoUpdate >>
    ELSE LET row_idx == selected_rows[1]
         IN  IF row_idx >= Len(table_data)
             THEN << NoUpdate, NoUpdate, NoUpdate, NoUpdate,
                     NoUpdate, NoUpdate, NoUpdate, NoUpdate >>
             ELSE LET r == table_data[row_idx + 1]
                      option_data ==
                          [contractSymbol |-> Get(r, "contractSymbol", ""),
                           type           |-> Get(r, "type", ""),
                           dte            |-> Get(r, "dte", 0),
                           strike         |-> Get(r, "strike", 0),
                           mid            |-> Get(r, "mid", 0),
                           delta          |-> Get(r, "delta", NaN),
                           volume         |-> Get(r, "volume", 0),
                           openInterest   |-> Get(r, "openInterest", 0),
                           ann_return     |-> Get(r, "ann_return", 0)]
                      perf_color == selected_option_color(option_data.ann_return,
                                        option_data.openInterest,
                                        option_data.volume, cfg)
                      strategy_label == IF strat = "short_calls"
                                        THEN "Short Call" ELSE "Cash-Secured Put"
                      card_out == update_selected_option_card(option_data,
                                      perf_color, strategy_label)
                      etf_symbol == option_data.contractSymbol
                      underlying ==
                          IF etf_symbol # ""
                          THEN Get(qs, etf_symbol, option_data.strike)
                          ELSE option_data.strike
                      payoff_fig ==
                          IF option_data.mid > 0 /\ option_data.strike > 0
                          THEN [figure |-> "payoff",
                                breakeven |-> compute_payoff_table(
                                    option_data.type, option_data.strike,
                                    option_data.mid, underlying,
                                    PayoffPointsDefault).breakeven]
                          ELSE [figure |-> "empty"]
                 IN  card_out \o <<payoff_fig>>

\* what Dash does with the returned tuple: a tuple whose length is not the
\* number of declared outputs is rejected as an invalid callback return
\* value and no output is written; otherwise every value but no_update is
\* written to its output
ApplyReturn(out, ret) ==
    IF Len(ret) # Len(DeclaredOutputs)
    THEN [out EXCEPT !.callback_error = TRUE]
    ELSE [k \in DOMAIN out |->
            IF k = "callback_error" THEN FALSE
            ELSE LET i == CHOOSE j \in DOMAIN DeclaredOutputs :
                              DeclaredOutputs[j] = k
                 IN  IF ret[i] = NoUpdate THEN out[k] ELSE ret[i]]

\* the rows of the table: enriched contracts of SH with strike and symbol
PickRows ==
    { [strike |-> c[1], contractSymbol |-> c[2]] @@ enrich_row(c[3], 2400, EmptyDict) :
        c \in { <<2500, "SH", GoodCall>>, <<2500, "", ThinCall>>,
                <<0, "SH", GoodPut>>, <<2500, "SH", GoodPut>> } }

MaxTable == 2
PickTables == UNION { [1..n -> PickRows] : n \in 0..MaxTable }

\* the placeholders of the card and the chart before any selection
InitialOutputs ==
    [k \in { DeclaredOutputs[j] : j \in DOMAIN DeclaredOutputs }
           \cup {"callback_error"} |->
        IF k = "callback_error" THEN FALSE ELSE [placeholder |-> k]]

InitPick ==
    /\ IdleNotPick /\ pc = "page" /\ config = EmptyDict
    /\ pick_in \in [selected_rows : {<<>>}, table_data : PickTables,
                    strategy : Strategies]
    /\ returned = <<>>
    /\ outputs = InitialOutputs

\* the user clicks a row of the table (or the table has shrunk under a
\* selection made before): selected_rows changes
SelectRow ==
    /\ pc = "page"
    /\ \E i \in 0..MaxTable :
         pick_in' = [pick_in EXCEPT !.selected_rows = <<i>>]
    /\ pc' = "selected_rows"
    /\ UNCHANGED <<config, returned, outputs, notPickVars>>

\* update_chain_on_control_change: a control changes, the table is
\* rewritten and selected_rows is set to []
ControlChange ==
    /\ pc = "page"
    /\ \E t \in PickTables, strat \in Strategies :
         pick_in' = [selected_rows |-> <<>>, table_data |-> t,
                     strategy |-> strat]
    /\ pc' = "selected_rows"
    /\ UNCHANGED <<config, returned, outputs, notPickVars>>

\* on_option_selected runs on the change of selected_rows
OnOptionSelected ==
    /\ pc = "selected_rows"
    /\ returned' = on_option_selected(pick_in.selected_rows, pick_in.table_data,
                       pick_in.strategy, "SH" :> 2400, config)
    /\ outputs' = ApplyReturn(outputs, returned')
    /\ pc' = "page"
    /\ UNCHANGED <<config, pick_in, notPickVars>>

NextPick == SelectRow \/ ControlChange \/ OnOptionSelected

SpecPick == InitPick /\ [][NextPick]_vars

\* C29: every return of on_option_selected has one value per declared
\* output, and with an empty selection or a row index past the end of the
\* table the five outputs are left as they were
C29_OneValuePerOutput ==
    [][OnOptionSelected =>
          /\ Len(returned') = Len(DeclaredOutputs)
          /\ (pick_in.selected_rows = <<>>
                \/ pick_in.selected_rows[1] >= Len(pick_in.table_data))
               => outputs' = outputs]_vars


(***************************************************************************)
(* data/fetch.py, refresh_all and get_market_data, for one ETF (SH), one   *)
(* index proxy (SPY) and one target DTE.  A cache key f"..." is the tuple  *)
(* of its parts.  What a provider call does is an outcome [kind, v]: kind  *)
(* "ok" with the value v, the provider's failure value ("zeroed" quotes,   *)
(* "empty" list or frame), or "raise".  Each step returns the cache        *)
(* afterwards, the value the pass goes on with, whether the provider was   *)
(* asked, whether it raised, whether the item could not be obtained, and   *)
(* whether the step sets stale.                                            *)
(***************************************************************************)

\* ttl = config.get("refresh_interval_minutes", 5) * 60, in clock units
FetchTtl == 2

FetchEtf   == "SH"
FetchProxy == "SPY"

\* load_historical(symbol): the stored rows of the symbol as a frame, in
\* ascending date order
RECURSIVE RowsByDate(_)
RowsByDate(table) ==
    IF table = {} THEN <<>>
    ELSE LET first == CHOOSE r \in table : \A q \in table : r.date <= q.date
         IN  <<[idx |-> [day |-> first.date, hour |-> 0], Close |-> first.close]>>
                 \o RowsByDate(table \ {first})

load_historical(table, symbol) ==
    RowsByDate({ r \in table : r.symbol = symbol })

\* quotes: cache.get("quotes"), else provider.get_quotes and cache.set; on
\* an exception `cache.get("quotes") or {}`
QuotesStep(c, t, o) ==
    LET g == cache_get(c, <<"quotes">>, t)
    IN  IF g.got.hit
        THEN [cache |-> g.cache, value |-> g.got.value, asked |-> FALSE,
              raised |-> FALSE, failed |-> FALSE, stale |-> FALSE]
        ELSE IF o.kind = "raise"
        THEN LET again == cache_get(g.cache, <<"quotes">>, t)
             IN  [cache |-> again.cache,
                  value |-> IF again.got.hit /\ again.got.value # EmptyDict
                            THEN again.got.value ELSE EmptyDict,
                  asked |-> TRUE, raised |-> TRUE, failed |-> TRUE,
                  stale |-> TRUE]
        ELSE [cache |-> cache_set(g.cache, <<"quotes">>, o.v, FetchTtl, t),
              value |-> o.v, asked |-> TRUE, raised |-> FALSE,
              failed |-> o.kind = "zeroed", stale |-> FALSE]

\* historical of one index proxy: the cached frame, else get_historical; a
\* non-empty frame is saved and cached, an empty one or an exception falls
\* back on load_historical
HistStep(c, table, t, o) ==
    LET key == <<"historical", FetchProxy>>
        g   == cache_get(c, key, t)
    IN  IF g.got.hit
        THEN [cache |-> g.cache, db |-> table, value |-> g.got.value,
              asked |-> FALSE, raised |-> FALSE, failed |-> FALSE,
              stale |-> FALSE]
        ELSE IF o.kind = "raise"
        THEN [cache |-> g.cache, db |-> table,
              value |-> load_historical(table, FetchProxy),
              asked |-> TRUE, raised |-> TRUE, failed |-> TRUE, stale |-> TRUE]
        ELSE IF o.v # <<>>
        THEN [cache |-> cache_set(g.cache, key, o.v, FetchTtl, t),
              db |-> save_historical(table, FetchProxy, o.v), value |-> o.v,
              asked |-> TRUE, raised |-> FALSE, failed |-> FALSE,
              stale |-> FALSE]
        ELSE [cache |-> g.cache, db |-> table,
              value |-> load_historical(table, FetchProxy),
              asked |-> TRUE, raised |-> FALSE, failed |-> TRUE,
              stale |-> load_historical(table, FetchProxy) = <<>>]

\* the same, an exception of get_option_expirations leaving stale as it was
ExpStep_raise_not_stale(c, t, o) ==
    LET key == <<"expirations", FetchEtf>>
        g   == cache_get(c, key, t)
    IN  IF g.got.hit
        THEN [cache |-> g.cache, value |-> g.got.value, asked |-> FALSE,
              raised |-> FALSE, failed |-> FALSE, stale |-> FALSE]
        ELSE IF o.kind = "raise"
        THEN [cache |-> g.cache, value |-> <<>>, asked |-> TRUE,
              raised |-> TRUE, failed |-> TRUE, stale |-> FALSE]
        ELSE [cache |-> cache_set(g.cache, key, o.v, FetchTtl, t),
              value |-> o.v, asked |-> TRUE, raised |-> FALSE,
              failed |-> o.v = <<>>, stale |-> FALSE]

\* expirations of one ETF: the cached list, else get_option_expirations,
\* whose list is cached as it is; [] on an exception
ExpStep(c, t, o) ==
    LET key == <<"expirations", FetchEtf>>
        g   == cache_get(c, key, t)
    IN  IF g.got.hit
        THEN [cache |-> g.cache, value |-> g.got.value, asked |-> FALSE,
              raised |-> FALSE, failed |-> FALSE, stale |-> FALSE]
        ELSE IF o.kind = "raise"
        THEN [cache |-> g.cache, value |-> <<>>, asked |-> TRUE,
              raised |-> TRUE, failed |-> TRUE, stale |-> TRUE]
        ELSE [cache |-> cache_set(g.cache, key, o.v, FetchTtl, t),
              value |-> o.v, asked |-> TRUE, raised |-> FALSE,
              failed |-> o.v = <<>>, stale |-> FALSE]

\* the delta column compute_greeks_for_chain assigns: greek is the delta it
\* computes for a row, NaN standing for the sentinel None
WithComputedGreeks(rows, greek) ==
    [i \in DOMAIN rows |-> ("delta" :> greek) @@ rows[i]]

\* the same, Greeks computed at any price that is not negative
ChainStep_greeks_at_zero(c, t, qs, nearest, o, greek) ==
    LET key == <<"chain", FetchEtf, nearest>>
        g   == cache_get(c, key, t)
    IN  IF g.got.hit
        THEN [cache |-> g.cache, value |-> g.got.value, asked |-> FALSE,
              raised |-> FALSE, failed |-> FALSE, stale |-> FALSE]
        ELSE IF o.kind = "raise"
        THEN [cache |-> g.cache, value |-> <<>>, asked |-> TRUE,
              raised |-> TRUE, failed |-> TRUE, stale |-> TRUE]
        ELSE IF o.v = <<>>
        THEN [cache |-> g.cache, value |-> <<>>, asked |-> TRUE,
              raised |-> FALSE, failed |-> TRUE, stale |-> FALSE]
        ELSE LET etf_quote == Get(qs, FetchEtf, EmptyDict)
                 last      == Get(etf_quote, "last", 0)
                 frame     == IF last >= 0 /\ "delta" \notin Columns(o.v)
                              THEN WithComputedGreeks(o.v, greek) ELSE o.v
             IN  [cache |-> cache_set(g.cache, key, frame, FetchTtl, t),
                  value |-> frame, asked |-> TRUE, raised |-> FALSE,
                  failed |-> FALSE, stale |-> FALSE]

\* the chain of one expiration: the cached frame, else get_option_chain; a
\* non-empty frame gets Greeks if the ETF's last quote is positive and the
\* frame has no delta column, and is cached; an empty frame on an exception
ChainStep(c, t, qs, nearest, o, greek) ==
    LET key == <<"chain", FetchEtf, nearest>>
        g   == cache_get(c, key, t)
    IN  IF g.got.hit
        THEN [cache |-> g.cache, value |-> g.got.value, asked |-> FALSE,
              raised |-> FALSE, failed |-> FALSE, stale |-> FALSE]
        ELSE IF o.kind = "raise"
        THEN [cache |-> g.cache, value |-> <<>>, asked |-> TRUE,
              raised |-> TRUE, failed |-> TRUE, stale |-> TRUE]
        ELSE IF o.v = <<>>
        THEN [cache |-> g.cache, value |-> <<>>, asked |-> TRUE,
              raised |-> FALSE, failed |-> TRUE, stale |-> FALSE]
        ELSE LET etf_quote == Get(qs, FetchEtf, EmptyDict)
                 last      == Get(etf_quote, "last", 0)
                 frame     == IF last > 0 /\ "delta" \notin Columns(o.v)
                              THEN WithComputedGreeks(o.v, greek) ELSE o.v
             IN  [cache |-> cache_set(g.cache, key, frame, FetchTtl, t),
                  value |-> frame, asked |-> TRUE, raised |-> FALSE,
                  failed |-> FALSE, stale |-> FALSE]

\* a step that was not taken
NoStep(c) ==
    [cache |-> c, value |-> <<>>, asked |-> FALSE, raised |-> FALSE,
     failed |-> FALSE, stale |-> FALSE]

\* date.today() and the one entry of expirations_dte
FetchToday  == 3
FetchTarget == 7

\* refresh_all() started at time t: the quotes, the history and the
\* expirations are handled at t, the chain and the final cache.set at
\* t + lag; o holds the outcome of each provider call, should it be made
refresh_all(c, table, t, lag, o) ==
    LET q  == QuotesStep(c, t, o.quotes)
        h  == HistStep(q.cache, table, t, o.hist)
        e  == ExpStep(h.cache, t, o.exps)
        nearest == find_nearest_expiration(e.value, FetchTarget, FetchToday)
        ch == IF nearest.found
              THEN ChainStep(e.cache, t + lag, q.value, nearest.date,
                             o.chain, o.greek)
              ELSE NoStep(e.cache)
        etf_exps   == IF nearest.found THEN FetchTarget :> nearest.date
                      ELSE EmptyDict
        etf_chains == IF nearest.found /\ ch.value # <<>>
                      THEN nearest.date :> ch.value ELSE EmptyDict
        steps  == [quotes |-> q, historical |-> h, expirations |-> e,
                   chain |-> ch]
        result == [quotes        |-> q.value,
                   chains        |-> FetchEtf :> etf_chains,
                   historical    |-> FetchProxy :> h.value,
                   expirations   |-> FetchEtf :> etf_exps,
                   stale_warning |-> q.stale \/ h.stale \/ e.stale \/ ch.stale,
                   last_refresh  |-> t + lag]
    IN  [cache  |-> cache_set(ch.cache, <<"market_data">>, result, FetchTtl,
                              t + lag),
         db     |-> h.db,
         result |-> result,
         asked  |-> { k \in DOMAIN steps : steps[k].asked },
         raised |-> { k \in DOMAIN steps : steps[k].raised },
         failed |-> { k \in DOMAIN steps : steps[k].failed },
         nearest |-> nearest]

\* get_market_data() at time t: the cached market_data, else refresh_all()
get_market_data(c, table, t, lag, o) ==
    LET g == cache_get(c, <<"market_data">>, t)
    IN  IF g.got.hit
        THEN [cache |-> g.cache, db |-> table, result |-> g.got.value,
              asked |-> {}, raised |-> {}, failed |-> {},
              nearest |-> NoDate, pass |-> FALSE]
        ELSE [pass |-> TRUE] @@ refresh_all(g.cache, table, t, lag, o)


-----------------------------------------------------------------------------
(* Specification SpecFetch: Refresh Now clicks (refresh_all) and interval  *)
(* ticks (get_market_data) as time passes, the provider answering,         *)
(* failing or raising at each call.                                        *)

Outcome(kind, v) == [kind |-> kind, v |-> v]

\* a contract as YFinanceProvider returns it, without Greeks
PlainCall == [f \in DOMAIN GoodCall \ {"delta"} |-> GoodCall[f]]

QuoteOutcomes ==
    { Outcome("ok", FetchEtf :> [last |-> 2400]),
      Outcome("zeroed", FetchEtf :> [last |-> 0]),
      Outcome("raise", EmptyDict) }

HistOutcomes ==
    { Outcome("ok", <<[idx |-> [day |-> 1, hour |-> 0], Close |-> 500]>>),
      Outcome("empty", <<>>), Outcome("raise", <<>>) }

ExpOutcomes ==
    { Outcome("ok", <<2, 5, 12>>), Outcome("empty", <<>>),
      Outcome("raise", <<>>) }

ChainOutcomes ==
    { Outcome("ok", <<PlainCall>>), Outcome("ok", <<GoodCall>>),
      Outcome("empty", <<>>), Outcome("raise", <<>>) }

NotAsked == Outcome("none", <<>>)

\* the outcomes of a call that is made only on a cache miss
OnMiss(c, key, t, outcomes) ==
    IF cache_get(c, key, t).got.hit THEN {NotAsked} ELSE outcomes

\* what the provider does in one pass started at time t: an outcome for
\* every call the pass makes, and the delta compute_greeks would give for
\* the contract of a chain that is asked for
PassOutcomes(c, t, lag) ==
    UNION { UNION {
        LET exps    == IF e = NotAsked
                       THEN cache_get(c, <<"expirations", FetchEtf>>, t).got.value
                       ELSE e.v
            nearest == find_nearest_expiration(exps, FetchTarget, FetchToday)
            calls   == IF nearest.found
                       THEN OnMiss(c, <<"chain", FetchEtf, nearest.date>>,
                                   t + lag, ChainOutcomes)
                       ELSE {NotAsked}
        IN  { [quotes |-> q, hist |-> h, exps |-> e, chain |-> ch, greek |-> g] :
                h \in OnMiss(c, <<"historical", FetchProxy>>, t, HistOutcomes),
                ch \in calls,
                g \in IF calls # {NotAsked} THEN {Num(25), NaN} ELSE {NaN} } :
        e \in OnMiss(c, <<"expirations", FetchEtf>>, t, ExpOutcomes) } :
        q \in OnMiss(c, <<"quotes">>, t, QuoteOutcomes) }

FetchConfig == "etfs" :> <<FetchEtf>>

MaxFetchClock == 3

InitFetch ==
    /\ IdleNotFetch /\ pc = "serving"
    /\ config = FetchConfig
    /\ fcache = EmptyDict /\ fclock = 0 /\ fdb = {}
    /\ fret = [by |-> "none"]
    /\ flog = [asked |-> {}, raised |-> {}, failed |-> {},
               nearest |-> NoDate, quotes_cached |-> Miss,
               chain_from |-> "none"]

\* the log of a pass: the calls it made, those that raised and those that
\* failed, the quotes cached last and the kind of chain the cache holds
LogOf(r, o) ==
    [asked   |-> r.asked, raised |-> r.raised, failed |-> r.failed,
     nearest |-> r.nearest,
     quotes_cached |-> IF "quotes" \in r.asked /\ "quotes" \notin r.raised
                       THEN Hit(o.quotes.v) ELSE flog.quotes_cached,
     chain_from |-> IF "chain" \in r.asked /\ o.chain.kind = "ok"
                    THEN (IF "delta" \in Columns(o.chain.v)
                          THEN "provider Greeks" ELSE "no Greeks")
                    ELSE IF r.result.chains[FetchEtf] = EmptyDict
                    THEN "none" ELSE flog.chain_from]

\* a click on Refresh Now: refresh_dashboard calls refresh_all()
RefreshAll ==
    /\ pc = "serving"
    /\ \E lag \in {0, 1} :
         /\ fclock + lag <= MaxFetchClock
         /\ \E o \in PassOutcomes(fcache, fclock, lag) :
              LET r == refresh_all(fcache, fdb, fclock, lag, o)
              IN  /\ fcache' = r.cache
                  /\ fdb' = r.db
                  /\ fclock' = fclock + lag
                  /\ fret' = [by |-> "refresh_all", cached |-> FALSE,
                              result |-> r.result]
                  /\ flog' = LogOf(r, o)
    /\ UNCHANGED <<pc, config, notFetchVars>>

\* an interval tick or a page load: refresh_dashboard calls
\* get_market_data(), which serves the cached result or runs refresh_all()
GetMarketData ==
    /\ pc = "serving"
    /\ \E lag \in {0, 1} :
         /\ fclock + lag <= MaxFetchClock
         /\ LET g == cache_get(fcache, <<"market_data">>, fclock)
            IN  IF g.got.hit
                THEN /\ lag = 0
                     /\ fcache' = g.cache
                     /\ fret' = [by |-> "get_market_data", cached |-> TRUE,
                                 result |-> g.got.value]
                     /\ UNCHANGED <<fdb, fclock, flog>>
                ELSE \E o \in PassOutcomes(g.cache, fclock, lag) :
                       LET r == get_market_data(fcache, fdb, fclock, lag, o)
                       IN  /\ fcache' = r.cache
                           /\ fdb' = r.db
                           /\ fclock' = fclock + lag
                           /\ fret' = [by |-> "get_market_data",
                                       cached |-> FALSE,
                                       result |-> r.result]
                           /\ flog' = LogOf(r, o)
    /\ UNCHANGED <<pc, config, notFetchVars>>

\* time passes between two calls
FetchTick ==
    /\ pc = "serving"
    /\ fclock < MaxFetchClock
    /\ fclock' = fclock + 1
    /\ UNCHANGED <<pc, config, fcache, fdb, fret, flog, notFetchVars>>

NextFetch == RefreshAll \/ GetMarketData \/ FetchTick

SpecFetch == InitFetch /\ [][NextFetch]_vars


\* a step in which refresh_all ran (a click, or get_market_data on a miss):
\* the value returned did not come from the market_data entry
PassTaken ==
    /\ fret'.by # "none" /\ ~fret'.cached
    /\ <<fret', flog', fcache'>> # <<fret, flog, fcache>>

\* a step in which get_market_data served the cached market_data
ServedFromCache ==
    /\ fret'.by = "get_market_data" /\ fret'.cached
    /\ fclock' = fclock /\ flog' = flog

\* C23: when get_quotes raises during refresh_all the returned quotes are
\* the most recently cached quotes, with stale_warning true, and are empty
\* only if no quotes were ever cached
C23_RaiseServesCached ==
    [][(PassTaken /\ "quotes" \in flog'.raised) =>
          /\ fret'.result.stale_warning
          /\ fret'.result.quotes = IF flog.quotes_cached.hit
                                   THEN flog.quotes_cached.value
                                   ELSE EmptyDict]_vars

\* C24: an item the previous refresh_all pass could not obtain (the call
\* raised or returned its failure value) is asked of the provider again by
\* the next pass, the chain provided the pass has an expiration to ask for
C24_FailedAskedAgain ==
    [][PassTaken =>
          \A item \in flog.failed :
              \/ item \in flog'.asked
              \/ item = "chain" /\ ~flog'.nearest.found]_vars

ResultKeys ==
    {"quotes", "chains", "historical", "expirations", "stale_warning",
     "last_refresh"}

\* C27: refresh_all returns a result with the six keys whatever the
\* provider calls do, with stale_warning true when one of them raised, and
\* caches it; get_market_data returns that result while the market_data
\* entry has not expired
C27_AlwaysReturns ==
    [][/\ PassTaken =>
            /\ DOMAIN fret'.result = ResultKeys
            /\ flog'.raised # {} => fret'.result.stale_warning
            /\ fcache'[<<"market_data">>].value = fret'.result
       /\ ServedFromCache =>
            /\ fret.by # "none"
            /\ fret'.result = fret.result
            /\ fret'.result = fcache[<<"market_data">>].value]_vars

\* get_market_data has served, from the cache, the result of a pass in
\* which a provider call raised
C27_Witness ==
    /\ fret.by = "get_market_data" /\ fret.cached
    /\ flog.raised # {}
    /\ fret.result.stale_warning
    /\ fret.result.last_refresh < fclock

\* underlying_prices of refresh_dashboard for a result of refresh_all
PricesOf(res, cfg) ==
    LET etfs == Get(cfg, "etfs", <<>>)
    IN  [e \in { etfs[i] : i \in DOMAIN etfs } |->
            Get(Get(res.quotes, e, EmptyDict), "last", 0)]

\* for the contracts of the ETF in a result, enriched as refresh_dashboard
\* enriches them: ann_return 0, no delta, red under every VIX and index
\* colour, and a red ETF entry without green contracts
AllRedWithoutDelta(res, cfg) ==
    LET up       == PricesOf(res, cfg)
        en       == EnrichChains(res.chains, up, cfg)
    IN  /\ \A k \in DOMAIN en[FetchEtf] :
             \A i \in DOMAIN en[FetchEtf][k] :
                LET r == en[FetchEtf][k][i]
                IN  /\ r.ann_return = 0
                    /\ Get(r, "delta", NaN).nan
                    /\ \A vc \in Colors, ic \in Colors :
                         option_traffic_light(r, vc, ic, cfg).color = "red"
        /\ \A vc \in Colors, sc \in Colors, nc \in Colors :
             LET entry == etf_status_summary(en, up, vc, sc, nc, cfg)[1]
             IN  /\ entry.status_color = "red"
                 /\ entry.green_calls = 0 /\ entry.green_puts = 0
                 /\ entry.total_green = 0

\* the ETF's quote in the returned result is missing or 0 and the chain in
\* it came from the provider without Greeks
NoQuoteNoGreeks ==
    /\ fret.by # "none"
    /\ PricesOf(fret.result, config)[FetchEtf] = 0
    /\ fret.result.chains[FetchEtf] # EmptyDict
    /\ flog.chain_from = "no Greeks"

=============================================================================
